---- MODULE Spec2Model ----
(***************************************************************************)
(* A model of the YouTube API handler (src/youtube_api_handler.py) and of  *)
(* the gateway routes that serve it (src/api_server.py).                   *)
(*                                                                         *)
(* Conventions                                                             *)
(*   - Python's None is the empty sequence <<>>; a value v that may be     *)
(*     None is carried as <<v>> (Some(v)).                                 *)
(*   - A dict is a function; `key in d` is `key \in DOMAIN d`.             *)
(*   - Wall-clock time of the cache (datetime.now()) is counted in ticks   *)
(*     of 300 s, the greatest common divisor of the configured TTLs.       *)
(***************************************************************************)
EXTENDS Integers, Sequences, FiniteSets, TLC

VARIABLES
    nops,       \* history: number of handler operations called
    cache,      \* SimpleCache._cache : key -> CacheEntry
    stats,      \* SimpleCache._stats : [hits, misses]
    now,        \* datetime.now(), in ticks
    ngets,      \* history: number of SimpleCache.get calls made
    lastSet,    \* history: per key, the latest set() since the last clear()
    last,       \* history: the latest operation and what it returned
    clock,              \* time.time(), in ticks of 0.5 s
    last_request_time,  \* YouTubeAPIHandler.last_request_time
    gatePasses,         \* history: the last two times a caller left the gate
    worker,             \* per caller of _make_request / _make_xml_request:
                        \* where it is and its local variables
    nstarted,           \* history: number of upstream calls started
    thread,             \* per batch worker inside cache_response.wrapper:
                        \* where it is and its local variables
    nraised,            \* history: number of SimpleCache.get calls that raised
    batch,              \* one run of batch_process_mixed_requests: its
                        \* locals and where it is
    keyuse              \* upstream's request counters per credential, and
                        \* history: the credential attached to each request

cacheVars == <<cache, stats, now, ngets, lastSet, last, nops>>
netVars == <<clock, last_request_time, gatePasses, worker, nstarted>>
concVars == <<thread, nraised, batch, keyuse>>
vars == <<cacheVars, netVars, concVars>>

(***************************************************************************)
(* Bounds of the model                                                     *)
(***************************************************************************)
MaxTime == 3
MaxTtl == 1
MaxGets == 3
MaxOrchOps == 2
MaxOrchTime == 3
MaxClock == 6
MaxAttempts == 3
MaxNetCalls == 2
MaxConcGets == 3
MaxConcTime == 2

None == <<>>
Some(v) == <<v>>

(***************************************************************************)
(* CacheEntry and SimpleCache                                              *)
(***************************************************************************)
CacheEntry(value, t, ttl) == [data |-> value, timestamp |-> t, ttl |-> ttl]

is_expired_strict(entry, t) == t >= entry.timestamp + entry.ttl

\* CacheEntry.is_expired, evaluated at time t
is_expired(entry, t) == t > entry.timestamp + entry.ttl

SimpleCache_init == [cache |-> <<>>, stats |-> [hits |-> 0, misses |-> 0]]

Without(f, key) == [k \in DOMAIN f \ {key} |-> f[k]]
With(f, key, v) == [k \in DOMAIN f \cup {key} |-> IF k = key THEN v ELSE f[k]]

get_keeps_expired(c, key, t) ==
    IF key \in DOMAIN c.cache /\ ~is_expired(c.cache[key], t)
    THEN [c   |-> [c EXCEPT !.stats.hits = @ + 1],
          ret |-> Some(c.cache[key].data)]
    ELSE [c   |-> [c EXCEPT !.stats.misses = @ + 1],
          ret |-> None]

\* SimpleCache.get(key) at time t, on the cache c = [cache, stats]:
\* the cache after the call and the value returned
SimpleCache_get(c, key, t) ==
    IF key \in DOMAIN c.cache
    THEN LET entry == c.cache[key] IN
         IF ~is_expired(entry, t)
         THEN [c   |-> [c EXCEPT !.stats.hits = @ + 1],
               ret |-> Some(entry.data)]
         ELSE [c   |-> [cache |-> Without(c.cache, key),
                        stats |-> [c.stats EXCEPT !.misses = @ + 1]],
               ret |-> None]
    ELSE [c   |-> [c EXCEPT !.stats.misses = @ + 1],
          ret |-> None]

set_keeps_timestamp(c, key, value, ttl, t) ==
    IF key \in DOMAIN c.cache
    THEN [c EXCEPT !.cache = With(c.cache, key,
                       CacheEntry(value, c.cache[key].timestamp, ttl))]
    ELSE [c EXCEPT !.cache = With(c.cache, key, CacheEntry(value, t, ttl))]

\* SimpleCache.set(key, value, ttl) at time t
SimpleCache_set(c, key, value, ttl, t) ==
    [c EXCEPT !.cache = With(c.cache, key, CacheEntry(value, t, ttl))]

clear_resets_stats(c) == [cache |-> <<>>, stats |-> [hits |-> 0, misses |-> 0]]

\* SimpleCache.clear()
SimpleCache_clear(c) == [c EXCEPT !.cache = <<>>]

\* SimpleCache.stats()
SimpleCache_stats(c) == c.stats

(***************************************************************************)
(* Configuration (src/config.py).  TTLs are in ticks of 300 s.             *)
(***************************************************************************)
CACHE_TTL_CHANNEL == 6
CACHE_TTL_VIDEO == 2
CACHE_TTL_RSS == 1
\* Config.MAX_VIDEO_BATCH_SIZE / MAX_CHANNEL_BATCH_SIZE, as configured for
\* the lists of at most three ids the model sends
MAX_VIDEO_BATCH_SIZE == 2
MAX_CHANNEL_BATCH_SIZE == 2

Min(a, b) == IF a < b THEN a ELSE b
Max(a, b) == IF a > b THEN a ELSE b

\* Python's seq[:n]
SliceTo(seq, n) ==
    IF n >= 0 THEN SubSeq(seq, 1, Min(n, Len(seq)))
              ELSE SubSeq(seq, 1, Max(0, Len(seq) + n))

\* Python's seq[i:i+size], i counted from 0
Batch(seq, i, size) == SubSeq(seq, i + 1, Min(i + size, Len(seq)))

\* the number of rounds of `for i in range(0, len(seq), size)`
NumBatches(seq, size) == (Len(seq) + size - 1) \div size

RECURSIVE Concat(_)
Concat(seqs) == IF seqs = <<>> THEN <<>> ELSE Head(seqs) \o Concat(Tail(seqs))

RECURSIVE SelectSeqBy(_, _)
\* [x for x in seq if Test(x)] with Test given as the set of accepted values
SelectSeqBy(seq, ok) ==
    IF seq = <<>> THEN <<>>
    ELSE IF Head(seq) \in ok THEN <<Head(seq)>> \o SelectSeqBy(Tail(seq), ok)
         ELSE SelectSeqBy(Tail(seq), ok)

\* the truth value Python gives a dict or a list
Falsy(x) == DOMAIN x = {}

(***************************************************************************)
(* cache_response: the decorator around the four cached operations         *)
(***************************************************************************)
\* a positional argument and a keyword argument as str(args +
\* tuple(kwargs.items())) renders them
Pos(v) == [kw |-> "", val |-> v]
Kw(name, v) == [kw |-> name, val |-> v]

\* f"{func.__name__}_{md5(str(args + tuple(kwargs.items())))}"; md5 and str
\* are taken to be injective
cache_key(func_name, args) == <<func_name, args>>

Result(data, from_cache, cache_status) ==
    [data |-> data, from_cache |-> from_cache, cache_status |-> cache_status]

wrapper_refetches(c, func_name, args, ttl, t, result) ==
    LET key == cache_key(func_name, args)
        g == SimpleCache_get(c, key, t)
    IN  [c |-> IF result # None
               THEN SimpleCache_set(g.c, key, result[1], ttl, t) ELSE g.c,
         out |-> Result(result, FALSE, "miss"), ran |-> TRUE]

\* wrapper(self, *args, **kwargs) at time t.  `result` is what func returns
\* when the wrapper runs it (None or Some(value)); `ran` tells whether it did.
wrapper(c, func_name, args, ttl, t, result) ==
    LET key == cache_key(func_name, args)
        g == SimpleCache_get(c, key, t)
    IN  IF g.ret # None
        THEN [c |-> g.c, out |-> Result(g.ret, TRUE, "hit"), ran |-> FALSE]
        ELSE IF result # None
             THEN [c |-> SimpleCache_set(g.c, key, result[1], ttl, t),
                   out |-> Result(result, FALSE, "miss"), ran |-> TRUE]
             ELSE [c |-> g.c, out |-> Result(None, FALSE, "miss"),
                   ran |-> TRUE]

(***************************************************************************)
(* The bodies of the cached operations, given what upstream answers        *)
(***************************************************************************)
\* get_channel_by_handle: response is what _make_request returned
channel_by_handle_body(response) ==
    IF response # None /\ "items" \in DOMAIN response[1]
       /\ response[1].items # <<>>
    THEN Some(response[1].items[1])
    ELSE None

items_of(response) ==
    IF response # None /\ "items" \in DOMAIN response[1]
    THEN response[1].items ELSE <<>>

\* get_channels_by_id: responses[b] answers the b-th batch
channels_by_id_body(channel_ids, responses) ==
    Some(Concat([b \in 1..NumBatches(channel_ids, MAX_CHANNEL_BATCH_SIZE) |->
                    items_of(responses[b])]))

\* _format_video_response, the fields the orchestrator reads
format_video_response(video_data) ==
    [id |-> video_data.id,
     view_count |-> video_data.statistics.viewCount,
     like_count |-> video_data.statistics.likeCount,
     comment_count |-> video_data.statistics.commentCount]

\* get_videos_by_id: responses[b] answers the b-th batch
videos_by_id_body(video_ids, responses) ==
    Some(Concat([b \in 1..NumBatches(video_ids, MAX_VIDEO_BATCH_SIZE) |->
                    [i \in 1..Len(items_of(responses[b])) |->
                        format_video_response(items_of(responses[b])[i])]]))

(***************************************************************************)
(* Feed parser.  A URL is a sequence of tokens; a substring test is a      *)
(* token test, '' is <<>>.                                                 *)
(***************************************************************************)
Contains(url, tok) == \E i \in 1..Len(url) : url[i] = tok

LastIndexOf(url, tok) ==
    CHOOSE i \in 1..Len(url) :
        url[i] = tok /\ \A j \in (i + 1)..Len(url) : url[j] # tok

\* url.split(tok)[-1]
AfterLast(url, tok) ==
    IF Contains(url, tok) THEN SubSeq(url, LastIndexOf(url, tok) + 1, Len(url))
    ELSE url

\* s.split(tok)[0]
BeforeFirst(s, tok) ==
    IF Contains(s, tok)
    THEN SubSeq(s, 1, (CHOOSE i \in 1..Len(s) :
                          s[i] = tok /\ \A j \in 1..(i - 1) : s[j] # tok) - 1)
    ELSE s

\* _categorize_video_type
categorize_video_type(url) ==
    IF url = <<>> THEN "unknown"
    ELSE IF Contains(url, "/shorts/") THEN "shorts"
    ELSE IF Contains(url, "/watch?v=") THEN "long"
    ELSE "unknown"

\* int(text) for a str, a sequence of characters here: ValueError unless the
\* text is a number (the texts drawn carry no sign and no blanks)
IsDigit(ch) == ch \in {"0", "1", "2", "3", "4", "5", "6", "7", "8", "9"}

DigitValue(ch) ==
    CASE ch = "0" -> 0 [] ch = "1" -> 1 [] ch = "2" -> 2 [] ch = "3" -> 3
      [] ch = "4" -> 4 [] ch = "5" -> 5 [] ch = "6" -> 6 [] ch = "7" -> 7
      [] ch = "8" -> 8 [] ch = "9" -> 9

int_raises(text) ==
    text = <<>> \/ \E i \in 1..Len(text) : ~IsDigit(text[i])

RECURSIVE int_value(_)
int_value(text) ==
    IF text = <<>> THEN 0
    ELSE int_value(SubSeq(text, 1, Len(text) - 1)) * 10
         + DigitValue(text[Len(text)])

\* lines 621-628: entry.stats is None when the group/community/statistics
\* chain is incomplete, else Some(views attribute), the attribute being None
\* when absent and Some(text) otherwise
rss_views_raises(entry) ==
    /\ entry.stats # None
    /\ entry.stats[1] # None
    /\ int_raises(entry.stats[1][1])

rss_views(entry) ==
    IF entry.stats = None \/ entry.stats[1] = None THEN 0
    ELSE int_value(entry.stats[1][1])

\* _parse_rss_video: entry.link, entry.title are None or Some(text)
parse_rss_video(entry) ==
    LET video_url == IF entry.link # None THEN entry.link[1] ELSE <<>>
        video_id ==
            IF Contains(video_url, "/watch?v=")
            THEN BeforeFirst(AfterLast(video_url, "/watch?v="), "&")
            ELSE IF Contains(video_url, "/shorts/")
            THEN BeforeFirst(AfterLast(video_url, "/shorts/"), "?")
            ELSE <<>>
    IN  [url |-> video_url,
         video_id |-> video_id,
         title |-> IF entry.title # None THEN entry.title[1] ELSE <<>>,
         video_type |-> categorize_video_type(video_url),
         views_from_rss |-> rss_views(entry)]

\* _parse_rss_feed: ET.ParseError gives []
parse_rss_feed(xml_content) ==
    IF ~xml_content.wellformed THEN <<>>
    ELSE [i \in 1..Len(xml_content.entries) |->
             parse_rss_video(xml_content.entries[i])]

\* _parse_rss_feed as a call: what it returns, or the exception that leaves it
parse_rss_feed_call(xml_content) ==
    IF xml_content.wellformed
       /\ \E i \in 1..Len(xml_content.entries) :
                rss_views_raises(xml_content.entries[i])
    THEN [raised |-> "ValueError", value |-> None]
    ELSE [raised |-> "none", value |-> Some(parse_rss_feed(xml_content))]

\* get_channel_videos_rss: xml is what _make_xml_request returned
channel_videos_rss_body(xml) ==
    IF xml = None THEN Some(<<>>) ELSE Some(parse_rss_feed(xml[1]))

(***************************************************************************)
(* Formatter and analytics, as far as the orchestrator's control flow      *)
(* reads them                                                              *)
(***************************************************************************)
\* _format_channel_response(channel_data, language_analysis)
format_channel_response(channel_data, language_analysis) ==
    [id |-> channel_data.id,
     subscriber_count |-> channel_data.statistics.subscriberCount,
     language_confidence |->
        IF language_analysis # None
        THEN language_analysis[1].language_confidence ELSE 0]

\* _categorize_videos_by_type: the two partitions
categorize_videos_by_type(videos) ==
    LET typed(ty) ==
            SelectSeqBy(videos, {v \in {videos[i] : i \in 1..Len(videos)} :
                "video_type" \in DOMAIN v /\ v.video_type = ty})
    IN  [shorts |-> typed("shorts"), long |-> typed("long")]

\* lines 357-364: copy video_type and url of the first RSS stub with the same
\* id onto a detailed video
merge_rss(detailed_video, rss_videos) ==
    IF \E i \in 1..Len(rss_videos) :
            rss_videos[i].video_id = detailed_video.id
    THEN LET i == CHOOSE i \in 1..Len(rss_videos) :
                    /\ rss_videos[i].video_id = detailed_video.id
                    /\ \A j \in 1..(i - 1) :
                            rss_videos[j].video_id # detailed_video.id
         IN  [k \in DOMAIN detailed_video \cup {"video_type", "rss_url"} |->
                 IF k = "video_type" THEN rss_videos[i].video_type
                 ELSE IF k = "rss_url" THEN rss_videos[i].url
                 ELSE detailed_video[k]]
    ELSE detailed_video

(***************************************************************************)
(* Upstream: what the platform answers to one request                      *)
(***************************************************************************)
UrlWatch == <<"https://www.youtube.com", "/watch?v=", "v1">>
UrlShorts == <<"https://www.youtube.com", "/shorts/", "v2">>
UrlOther == <<"https://www.youtube.com", "/live/", "v3">>
UrlBoth ==
    <<"https://www.youtube.com", "/shorts/", "v2", "?", "feature=",
      "/watch?v=", "v1">>

Entry(url) == [stats |-> None, link |-> Some(url), title |-> Some(<<"t">>)]
NoLinkEntry == [stats |-> None, link |-> None, title |-> Some(<<"t">>)]

Feeds ==
    { [wellformed |-> FALSE, entries |-> <<Entry(UrlWatch)>>],
      [wellformed |-> TRUE, entries |-> <<Entry(UrlOther), NoLinkEntry>>],
      [wellformed |-> TRUE, entries |-> <<Entry(UrlOther), Entry(UrlWatch)>>],
      [wellformed |-> TRUE,
       entries |-> <<Entry(UrlWatch), Entry(UrlShorts), Entry(UrlOther)>>] }

XmlAnswers == {None} \cup {Some(f) : f \in Feeds}

SubscriberCounts == {100}

RawChannel(subs) == [id |-> "UC1", statistics |-> [subscriberCount |-> subs]]

ChannelAnswers ==
    {None, Some([items |-> <<>>])}
    \cup {Some([items |-> <<RawChannel(s)>>]) : s \in SubscriberCounts}

RawVideo(id) ==
    [id |-> id,
     statistics |-> [viewCount |-> 10, likeCount |-> 2, commentCount |-> 1]]

\* the answer to one videos request for the ids of one batch
VideoAnswer(mode, ids) ==
    IF mode = "fail" THEN None
    ELSE Some([items |-> [i \in 1..Len(ids) |-> RawVideo(ids[i])]])

AnswerModes == {"ok", "fail"}

(***************************************************************************)
(* The orchestrator                                                        *)
(***************************************************************************)
EmptyResult == [data |-> <<>>, from_cache |-> FALSE, cache_status |-> "miss"]

AllIds(stubs) == [i \in 1..Len(stubs) |-> stubs[i].video_id]

\* line 336: [video['video_id'] for video in stubs if video.get('video_id')]
UsableIds(stubs) ==
    LET ids == [i \in 1..Len(stubs) |-> stubs[i].video_id]
    IN  SelectSeqBy(ids, {ids[i] : i \in 1..Len(ids)} \ {<<>>})

video_responses(video_ids, modes) ==
    [b \in 1..NumBatches(video_ids, MAX_VIDEO_BATCH_SIZE) |->
        VideoAnswer(modes[b], Batch(video_ids, (b - 1) * MAX_VIDEO_BATCH_SIZE,
                                    MAX_VIDEO_BATCH_SIZE))]

Calls(ran, name, n) == IF ran THEN [i \in 1..n |-> name] ELSE <<>>

overall_status_any(cache_details) ==
    LET flags == {cache_details[k].from_cache : k \in DOMAIN cache_details}
    IN  IF TRUE \in flags THEN [from_cache |-> TRUE, cache_status |-> "hit"]
        ELSE [from_cache |-> FALSE, cache_status |-> "miss"]

\* lines 454-466
overall_status(cache_details) ==
    LET flags == {cache_details[k].from_cache : k \in DOMAIN cache_details}
    IN  IF flags = {TRUE} THEN [from_cache |-> TRUE, cache_status |-> "hit"]
        ELSE IF TRUE \notin flags
             THEN [from_cache |-> FALSE, cache_status |-> "miss"]
             ELSE [from_cache |-> FALSE, cache_status |-> "partial"]

detail_of(result) ==
    [from_cache |-> result.from_cache, cache_status |-> result.cache_status]

\* get_channel_recent_videos(channel_handle, max_videos) at time t on the
\* cache c; up = [channel, rss, videos] is what upstream answers to the
\* requests the call issues.  Gives the cache after the call, the result
\* (out), the cached operations invoked (lookups) and the upstream requests
\* issued (calls), both in order.
get_channel_recent_videos(c, t, channel_handle, max_videos, up) ==
    LET ch == wrapper(c, "get_channel_by_handle", <<Pos(channel_handle)>>,
                      CACHE_TTL_CHANNEL, t, channel_by_handle_body(up.channel))
        chCalls == Calls(ch.ran, "channels", 1)
    IN  IF ch.out.data = None \/ Falsy(ch.out.data[1])
        THEN [c |-> ch.c, out |-> EmptyResult,
              lookups |-> <<"get_channel_by_handle">>, calls |-> chCalls,
              channel_result |-> ch.out, rss_videos |-> <<>>,
              video_ids |-> <<>>]
        ELSE
        LET raw_channel_data == ch.out.data[1]
            channel_id == raw_channel_data.id
            rss == wrapper(ch.c, "get_channel_videos_rss", <<Pos(channel_id)>>,
                           CACHE_TTL_RSS, t, channel_videos_rss_body(up.rss))
            rss_videos == rss.out.data[1]
            rssCalls == Calls(rss.ran, "rss", 1)
            video_ids == UsableIds(SliceTo(rss_videos, max_videos))
        IN  IF video_ids = <<>>
            THEN [c |-> rss.c,
                  out |-> [data |-> [channel |->
                                        format_channel_response(
                                            raw_channel_data, None),
                                     videos |-> <<>>,
                                     analytics |-> [message |->
                                        "No videos found for analytics"]],
                           from_cache |-> FALSE,
                           cache_status |-> "miss"],
                  lookups |-> <<"get_channel_by_handle",
                                "get_channel_videos_rss">>,
                  calls |-> chCalls \o rssCalls,
                  channel_result |-> ch.out, rss_videos |-> rss_videos,
                  video_ids |-> video_ids]
            ELSE
            LET vkey == cache_key("get_videos_by_id", <<Pos(video_ids)>>)
                vids == wrapper(rss.c, "get_videos_by_id", <<Pos(video_ids)>>,
                            CACHE_TTL_VIDEO, t,
                            videos_by_id_body(video_ids,
                                video_responses(video_ids, up.videos)))
                fetched == vids.out.data[1]
                detailed_videos ==
                    [i \in 1..Len(fetched) |-> merge_rss(fetched[i], rss_videos)]
                \* the list the wrapper returned is the list the cache holds:
                \* the merge writes into the cached dicts
                cAfter == [vids.c EXCEPT !.cache[vkey].data = detailed_videos]
                parts == categorize_videos_by_type(detailed_videos)
                cache_details ==
                    [channel |-> detail_of(ch.out),
                     rss |-> detail_of(rss.out),
                     videos |-> detail_of(vids.out)]
                overall == overall_status(cache_details)
            IN  [c |-> cAfter,
                 out |-> [data |-> [channel |->
                                       format_channel_response(
                                           raw_channel_data,
                                           Some([language_confidence |-> 0])),
                                    analytics |-> [final_metrics |->
                                       [content_distribution |->
                                          [short_count |-> Len(parts.shorts),
                                           long_count |-> Len(parts.long)]]]],
                          from_cache |-> overall.from_cache,
                          cache_status |-> overall.cache_status,
                          cache_details |-> cache_details],
                 lookups |-> <<"get_channel_by_handle",
                               "get_channel_videos_rss", "get_videos_by_id">>,
                 calls |-> chCalls \o rssCalls
                           \o Calls(vids.ran, "videos",
                                    NumBatches(video_ids, MAX_VIDEO_BATCH_SIZE)),
                 channel_result |-> ch.out, rss_videos |-> rss_videos,
                 video_ids |-> video_ids]

(***************************************************************************)
(* Gateway routes (src/api_server.py)                                      *)
(***************************************************************************)
route_serves_empty(result) ==
    [status |-> 200, success |-> TRUE, data |-> result.data,
     from_cache |-> result.from_cache, cache_status |-> result.cache_status]

\* GET /api/channel/<handle>/videos, given the handler's result
route_channel_recent_videos(result) ==
    IF Falsy(result.data)
    THEN [status |-> 404, success |-> FALSE, error |-> "Channel not found"]
    ELSE [status |-> 200, success |-> TRUE, data |-> result.data,
          from_cache |-> result.from_cache,
          cache_status |-> result.cache_status]

\* the variables a specification does not use stay as they are here
NetUnused ==
    /\ clock = 0
    /\ last_request_time = 0
    /\ gatePasses = <<>>
    /\ worker = <<>>
    /\ nstarted = 0

ConcUnused == thread = <<>> /\ nraised = 0 /\ batch = <<>> /\ keyuse = <<>>

(***************************************************************************)
(* Specification Spec: one caller driving a SimpleCache directly           *)
(***************************************************************************)
Keys == {"k1", "k2"}
Values == {"v1", "v2"}
Ttls == 0..MaxTtl

TheCache == [cache |-> cache, stats |-> stats]

Init ==
    /\ cache = SimpleCache_init.cache
    /\ stats = SimpleCache_init.stats
    /\ now = 0
    /\ ngets = 0
    /\ lastSet = [k \in Keys |-> None]
    /\ last = [op |-> "init", key |-> "k1", ret |-> None]
    /\ nops = 0
    /\ NetUnused
    /\ ConcUnused

Get(key) ==
    /\ ngets < MaxGets
    /\ LET r == SimpleCache_get(TheCache, key, now) IN
        /\ cache' = r.c.cache
        /\ stats' = r.c.stats
        /\ last' = [op |-> "get", key |-> key, ret |-> r.ret]
    /\ ngets' = ngets + 1
    /\ UNCHANGED <<now, lastSet, nops, netVars, concVars>>

Set(key, value, ttl) ==
    /\ LET c == SimpleCache_set(TheCache, key, value, ttl, now) IN
        /\ cache' = c.cache
        /\ stats' = c.stats
    /\ lastSet' = [lastSet EXCEPT ![key] =
                       Some([v |-> value, ttl |-> ttl, at |-> now,
                             afterExpiry |-> /\ lastSet[key] # None
                                             /\ now > lastSet[key][1].at
                                                      + lastSet[key][1].ttl])]
    /\ last' = [op |-> "set", key |-> key, ret |-> None]
    /\ UNCHANGED <<now, ngets, nops, netVars, concVars>>

Clear ==
    /\ LET c == SimpleCache_clear(TheCache) IN
        /\ cache' = c.cache
        /\ stats' = c.stats
    /\ lastSet' = [k \in Keys |-> None]
    /\ last' = [op |-> "clear", key |-> "k1", ret |-> None]
    /\ UNCHANGED <<now, ngets, nops, netVars, concVars>>

\* time passes between two calls
Tick ==
    /\ now < MaxTime
    /\ now' = now + 1
    /\ UNCHANGED <<cache, stats, ngets, lastSet, last, nops, netVars, concVars>>

Next ==
    \/ \E k \in Keys : Get(k)
    \/ \E k \in Keys, v \in Values, ttl \in Ttls : Set(k, v, ttl)
    \/ Clear
    \/ Tick

Spec == Init /\ [][Next]_vars

(***************************************************************************)
(* C1: SimpleCache.get on an expired entry returns absent, removes the     *)
(* entry and adds 1 to misses only; on a live entry it returns the value,  *)
(* adds 1 to hits only and keeps the entry; on a missing key it returns    *)
(* absent and adds 1 to misses.                                            *)
(***************************************************************************)
IsGetStep == ngets' = ngets + 1

C1_GetContract ==
    [][IsGetStep =>
        LET k == last'.key IN
        IF k \in DOMAIN cache
        THEN IF now > cache[k].timestamp + cache[k].ttl
             THEN /\ last'.ret = None
                  /\ k \notin DOMAIN cache'
                  /\ stats'.misses = stats.misses + 1
                  /\ stats'.hits = stats.hits
             ELSE /\ last'.ret = Some(cache[k].data)
                  /\ stats'.hits = stats.hits + 1
                  /\ stats'.misses = stats.misses
                  /\ cache' = cache
        ELSE /\ last'.ret = None
             /\ stats'.misses = stats.misses + 1]_vars

\* a get has just found an expired entry and evicted it, after an earlier hit
C1_Witness ==
    /\ last.op = "get"
    /\ last.ret = None
    /\ lastSet[last.key] # None
    /\ now > lastSet[last.key][1].at + lastSet[last.key][1].ttl
    /\ last.key \notin DOMAIN cache
    /\ stats.hits >= 1
    /\ stats.misses >= 1

(***************************************************************************)
(* C2: after set(k, v, ttl), get(k) returns v until ttl has elapsed and    *)
(* absent afterwards; a set made after the expiry counts from its own      *)
(* time, whatever was stored or evicted before.                            *)
(***************************************************************************)
C2_SetThenGet ==
    [][IsGetStep /\ lastSet[last'.key] # None =>
        LET s == lastSet[last'.key][1] IN
        IF now <= s.at + s.ttl
        THEN last'.ret = Some(s.v)
        ELSE last'.ret = None]_vars

\* a get returns the value of a set that was made after the previous
\* entry of the same key had expired, at a time the first entry's clock
\* would already have run out
C2_Witness ==
    /\ last.op = "get"
    /\ lastSet[last.key] # None
    /\ lastSet[last.key][1].afterExpiry
    /\ lastSet[last.key][1].ttl > 0
    /\ last.ret = Some(lastSet[last.key][1].v)
    /\ now = lastSet[last.key][1].at + lastSet[last.key][1].ttl
(***************************************************************************)
(* Specification SpecOrch: one caller driving the handler: the four cached *)
(* operations, the orchestrator, clear_cache, and time passing             *)
(***************************************************************************)
Handles == {"@a"}
ChannelIds == {"UC1"}
MaxVideosChoices == {1, 15}
VideoIdLists == { << <<"v1">> >>, << <<"v1">>, <<"v2">> >> }
ChannelIdLists == { <<"UC1", "UC2", "UC3">> }
\* one answer per request issued
ModeLists(ids, size) == [1..NumBatches(ids, size) -> AnswerModes]

InitOrch ==
    /\ cache = SimpleCache_init.cache
    /\ stats = SimpleCache_init.stats
    /\ now = 0
    /\ ngets = 0
    /\ lastSet = <<>>
    /\ last = [op |-> "init"]
    /\ nops = 0
    /\ NetUnused
    /\ ConcUnused

\* what one call of a cached operation leaves behind; `failed` tells whether
\* every upstream request the body issues comes back as None
Cached(func_name, args, ttl, result, ncalls, failed) ==
    /\ nops < MaxOrchOps
    /\ LET w == wrapper(TheCache, func_name, args, ttl, now, result) IN
        /\ cache' = w.c.cache
        /\ stats' = w.c.stats
        /\ last' = [op |-> func_name, key |-> cache_key(func_name, args),
                    out |-> w.out, ran |-> w.ran,
                    fetched |-> IF w.ran THEN result ELSE None,
                    calls |-> Calls(w.ran, func_name, ncalls),
                    upstream_failed |-> w.ran /\ failed]
    /\ ngets' = ngets + 1
    /\ nops' = nops + 1
    /\ UNCHANGED <<now, lastSet, netVars, concVars>>

CallChannelByHandle(handle, answer) ==
    Cached("get_channel_by_handle", <<Pos(handle)>>, CACHE_TTL_CHANNEL,
           channel_by_handle_body(answer), 1, answer = None)

CallChannelsById(channel_ids, modes) ==
    Cached("get_channels_by_id", <<Pos(channel_ids)>>, CACHE_TTL_CHANNEL,
           channels_by_id_body(channel_ids,
               [b \in 1..NumBatches(channel_ids, MAX_CHANNEL_BATCH_SIZE) |->
                   IF modes[b] = "fail" THEN None
                   ELSE Some([items |-> <<RawChannel(100)>>])]),
           NumBatches(channel_ids, MAX_CHANNEL_BATCH_SIZE),
           \A b \in DOMAIN modes : modes[b] = "fail")

CallVideosById(video_ids, modes) ==
    Cached("get_videos_by_id", <<Pos(video_ids)>>, CACHE_TTL_VIDEO,
           videos_by_id_body(video_ids, video_responses(video_ids, modes)),
           NumBatches(video_ids, MAX_VIDEO_BATCH_SIZE),
           \A b \in DOMAIN modes : modes[b] = "fail")

CallChannelVideosRss(channel_id, xml) ==
    Cached("get_channel_videos_rss", <<Pos(channel_id)>>, CACHE_TTL_RSS,
           channel_videos_rss_body(xml), 1, xml = None)

CallChannelRecentVideos(handle, max_videos, up) ==
    /\ nops < MaxOrchOps
    /\ LET r == get_channel_recent_videos(TheCache, now, handle, max_videos, up)
       IN
        /\ cache' = r.c.cache
        /\ stats' = r.c.stats
        /\ last' = [op |-> "get_channel_recent_videos",
                    handle |-> handle,
                    max_videos |-> max_videos,
                    out |-> r.out,
                    lookups |-> r.lookups,
                    calls |-> r.calls,
                    channel_result |-> r.channel_result,
                    rss_videos |-> r.rss_videos,
                    video_ids |-> r.video_ids,
                    response |-> route_channel_recent_videos(r.out)]
        /\ ngets' = ngets + Len(r.lookups)
    /\ nops' = nops + 1
    /\ UNCHANGED <<now, lastSet, netVars, concVars>>

\* clear_cache()
ClearCache ==
    /\ nops < MaxOrchOps
    /\ LET c == SimpleCache_clear(TheCache) IN
        /\ cache' = c.cache
        /\ stats' = c.stats
    /\ last' = [op |-> "clear_cache"]
    /\ nops' = nops + 1
    /\ UNCHANGED <<now, ngets, lastSet, netVars, concVars>>

TickOrch ==
    /\ now < MaxOrchTime
    /\ now' = now + 1
    /\ UNCHANGED <<cache, stats, ngets, lastSet, last, nops, netVars, concVars>>

NextOrch ==
    \/ \E h \in Handles, a \in ChannelAnswers : CallChannelByHandle(h, a)
    \/ \E ids \in ChannelIdLists :
        \E m \in ModeLists(ids, MAX_CHANNEL_BATCH_SIZE) :
            CallChannelsById(ids, m)
    \/ \E ids \in VideoIdLists :
        \E m \in ModeLists(ids, MAX_VIDEO_BATCH_SIZE) :
            CallVideosById(ids, m)
    \/ \E id \in ChannelIds, x \in XmlAnswers : CallChannelVideosRss(id, x)
    \/ \E h \in Handles, n \in MaxVideosChoices, a \in ChannelAnswers,
          x \in XmlAnswers, m \in [1..1 -> AnswerModes] :
            CallChannelRecentVideos(h, n,
                [channel |-> a, rss |-> x, videos |-> m])
    \/ ClearCache
    \/ TickOrch

SpecOrch == InitOrch /\ [][NextOrch]_vars
CachedOps == {"get_channel_by_handle", "get_channels_by_id",
              "get_videos_by_id", "get_channel_videos_rss"}

TtlOf(op) ==
    IF op = "get_videos_by_id" THEN CACHE_TTL_VIDEO
    ELSE IF op = "get_channel_videos_rss" THEN CACHE_TTL_RSS
    ELSE CACHE_TTL_CHANNEL

\* the cache holds a non-expired entry under key k
LiveEntry(k) ==
    k \in DOMAIN cache /\ now <= cache[k].timestamp + cache[k].ttl

IsCachedStep == nops' = nops + 1 /\ last'.op \in CachedOps
IsOrchStep == nops' = nops + 1 /\ last'.op = "get_channel_recent_videos"

(***************************************************************************)
(* C3 as stated: on a live entry a cached operation issues no upstream     *)
(* request and returns the stored value as a hit; otherwise it runs the    *)
(* fetch, stores the result under the key and returns it as a miss.        *)
(***************************************************************************)
C3_AsStated ==
    [][IsCachedStep =>
        LET k == last'.key IN
        IF LiveEntry(k)
        THEN /\ ~last'.ran
             /\ last'.calls = <<>>
             /\ last'.out = Result(Some(cache[k].data), TRUE, "hit")
        ELSE /\ last'.ran
             /\ k \in DOMAIN cache'
             /\ last'.out = Result(Some(cache'[k].data), FALSE, "miss")]_vars

(***************************************************************************)
(* C3 as amended: on a live entry a cached operation issues no upstream    *)
(* request and returns the stored value as a hit; otherwise it runs the    *)
(* fetch and returns its result as a miss, storing it under the key with   *)
(* the operation's TTL when it is not None and storing nothing when it is. *)
(***************************************************************************)
C3_CachedOperation ==
    [][IsCachedStep =>
        LET k == last'.key IN
        IF LiveEntry(k)
        THEN /\ ~last'.ran
             /\ last'.calls = <<>>
             /\ last'.out = Result(Some(cache[k].data), TRUE, "hit")
        ELSE /\ last'.ran
             /\ last'.out = Result(last'.fetched, FALSE, "miss")
             /\ IF last'.fetched # None
                THEN /\ k \in DOMAIN cache'
                     /\ cache'[k] =
                          CacheEntry(last'.fetched[1], now, TtlOf(last'.op))
                ELSE k \notin DOMAIN cache']_vars

\* a cached operation was served from the cache, and an earlier call of it
\* stored what it fetched
C3_Witness ==
    /\ last.op \in CachedOps
    /\ last.out.cache_status = "hit"
    /\ last.calls = <<>>
    /\ stats.hits = 1
    /\ stats.misses = 1

(***************************************************************************)
(* C8: when get_channel_recent_videos reaches its third fetch, the status  *)
(* is 'hit' if channel, RSS and videos were all served from the cache,     *)
(* 'miss' if none was and 'partial' otherwise; from_cache is true exactly  *)
(* for 'hit'; cache_details gives each step's own from_cache and status.   *)
(***************************************************************************)
C8_AggregateStatus ==
    [][IsOrchStep /\ Len(last'.lookups) = 3 =>
        LET keys == [channel |-> cache_key("get_channel_by_handle",
                                           <<Pos(last'.handle)>>),
                     rss |-> cache_key("get_channel_videos_rss",
                               <<Pos(last'.channel_result.data[1].id)>>),
                     videos |-> cache_key("get_videos_by_id",
                                          <<Pos(last'.video_ids)>>)]
            steps == {"channel", "rss", "videos"}
            hits == {s \in steps : LiveEntry(keys[s])}
            out == last'.out
        IN  /\ DOMAIN out.cache_details = steps
            /\ \A s \in steps :
                out.cache_details[s] =
                    [from_cache |-> s \in hits,
                     cache_status |-> IF s \in hits THEN "hit" ELSE "miss"]
            /\ out.cache_status =
                    IF hits = steps THEN "hit"
                    ELSE IF hits = {} THEN "miss" ELSE "partial"
            /\ out.from_cache = (out.cache_status = "hit")]_vars

\* channel and videos came from the cache, the RSS feed was fetched again
C8_Witness ==
    /\ last.op = "get_channel_recent_videos"
    /\ Len(last.lookups) = 3
    /\ last.out.cache_status = "partial"
    /\ last.out.cache_details.channel.from_cache
    /\ ~last.out.cache_details.rss.from_cache
    /\ last.out.cache_details.videos.from_cache
    /\ last.calls = <<"rss">>

(***************************************************************************)
(* C9: when the channel-by-handle fetch yields no data,                    *)
(* get_channel_recent_videos returns data = {}, from_cache = false,        *)
(* cache_status = 'miss', makes one cache lookup only (the channel's),     *)
(* issues no RSS and no videos request, and the gateway answers 404        *)
(* 'Channel not found'.                                                    *)
(***************************************************************************)
NoData(result) == result.data = None \/ Falsy(result.data[1])

C9_NoChannel ==
    [][IsOrchStep /\ NoData(last'.channel_result) =>
        /\ last'.out = [data |-> <<>>, from_cache |-> FALSE,
                        cache_status |-> "miss"]
        /\ last'.lookups = <<"get_channel_by_handle">>
        /\ ngets' = ngets + 1
        /\ stats'.hits + stats'.misses = stats.hits + stats.misses + 1
        /\ \A i \in 1..Len(last'.calls) : last'.calls[i] = "channels"
        /\ \A k \in DOMAIN cache' \ DOMAIN cache :
                k[1] \notin {"get_channel_videos_rss", "get_videos_by_id"}
        /\ last'.response.status = 404
        /\ last'.response.success = FALSE
        /\ last'.response.error = "Channel not found"]_vars

\* the channel request was issued and found nothing
C9_Witness ==
    /\ last.op = "get_channel_recent_videos"
    /\ NoData(last.channel_result)
    /\ last.calls = <<"channels">>
    /\ last.response.status = 404

(***************************************************************************)
(* C10: when no RSS stub has a non-empty video id,                         *)
(* get_channel_recent_videos stops after the RSS step: no videos lookup,   *)
(* no videos request, and it returns the formatted channel with an         *)
(* analytics block that holds the no-data message only.                    *)
(***************************************************************************)
C10_NoUsableId ==
    [][(/\ IsOrchStep
        /\ ~NoData(last'.channel_result)
        /\ \A i \in 1..Len(last'.rss_videos) :
                last'.rss_videos[i].video_id = <<>>) =>
        /\ last'.lookups = <<"get_channel_by_handle",
                             "get_channel_videos_rss">>
        /\ ngets' = ngets + 2
        /\ \A i \in 1..Len(last'.calls) : last'.calls[i] # "videos"
        /\ \A k \in DOMAIN cache' \ DOMAIN cache : k[1] # "get_videos_by_id"
        /\ last'.out.data.channel.id = last'.channel_result.data[1].id
        /\ last'.out.data.channel.subscriber_count =
              last'.channel_result.data[1].statistics.subscriberCount
        /\ DOMAIN last'.out.data.analytics = {"message"}
        /\ last'.out.data.analytics.message = "No videos found for analytics"
        /\ last'.out.data.videos = <<>>
        /\ last'.response.status = 200]_vars

\* the feed had entries, none with a usable id
C10_Witness ==
    /\ last.op = "get_channel_recent_videos"
    /\ ~NoData(last.channel_result)
    /\ Len(last.rss_videos) = 2
    /\ \A i \in 1..Len(last.rss_videos) : last.rss_videos[i].video_id = <<>>
    /\ DOMAIN last.out.data.analytics = {"message"}
(***************************************************************************)
(* Upstream client: _rate_limit, _make_request, _make_xml_request.         *)
(* time.time() is counted in ticks of 0.5 s, with the handler configured   *)
(* to MIN_REQUEST_INTERVAL = 1.0 s.                                        *)
(***************************************************************************)
MIN_REQUEST_INTERVAL == 2
\* time.sleep(1) before the retry of a 429
RETRY_SLEEP == 2

\* what one session.get (and, for JSON, response.json()) can come to
Outcomes == {"ok", "http_429", "http_error", "connection_error", "timeout",
             "bad_json"}
OutcomesOf(kind) == IF kind = "json" THEN Outcomes ELSE Outcomes \ {"bad_json"}

\* the exception an outcome raises inside the try block
ExceptionOf(outcome) ==
    IF outcome \in {"http_429", "http_error"} THEN "HTTPError"
    ELSE IF outcome = "connection_error" THEN "ConnectionError"
    ELSE IF outcome = "timeout" THEN "Timeout"
    ELSE IF outcome = "bad_json" THEN "JSONDecodeError"
    ELSE "none"

\* the classes of requests.exceptions and json an exception is an instance of
ClassesOf(exc) ==
    IF exc = "HTTPError" THEN {"HTTPError", "RequestException"}
    ELSE IF exc = "ConnectionError" THEN {"ConnectionError", "RequestException"}
    ELSE IF exc = "Timeout" THEN {"Timeout", "RequestException"}
    ELSE IF exc = "JSONDecodeError"
         THEN {"JSONDecodeError", "json.JSONDecodeError", "RequestException"}
    ELSE {}

xml_catches_http_only == {"HTTPError"}

\* the except clauses of _make_request and of _make_xml_request
json_catches == {"HTTPError", "RequestException", "json.JSONDecodeError"}
xml_catches == {"RequestException"}

Catches(kind) == IF kind = "json" THEN json_catches ELSE xml_catches

\* what a call does with the outcome of its request:
\* "return" a value, "retry" (sleep and call itself again) or "raise"
Disposition(kind, outcome) ==
    IF outcome = "ok" THEN "return"
    ELSE IF ClassesOf(ExceptionOf(outcome)) \cap Catches(kind) = {} THEN "raise"
    ELSE IF kind = "json" /\ outcome = "http_429" THEN "retry"
    ELSE "return"

ReturnValue(kind, outcome) ==
    IF outcome = "ok" THEN Some(IF kind = "json" THEN "json" ELSE "text")
    ELSE None

(***************************************************************************)
(* Specification SpecNet: callers (batch workers, request threads) of one  *)
(* handler going through the rate-limit gate and the request               *)
(***************************************************************************)
Workers == {"w1", "w2"}

IdleWorker ==
    [pc |-> "idle", kind |-> "json", nreq |-> 0, current_time |-> 0,
     wake |-> 0, outcome |-> "none", ret |-> None, raised |-> FALSE]

InitNet ==
    /\ cache = <<>>
    /\ stats = SimpleCache_init.stats
    /\ now = 0
    /\ ngets = 0
    /\ lastSet = <<>>
    /\ last = [op |-> "init"]
    /\ nops = 0
    /\ clock = MIN_REQUEST_INTERVAL     \* time.time() is far from 0
    /\ last_request_time = 0            \* line 115
    /\ gatePasses = <<>>
    /\ worker = [w \in Workers |-> IdleWorker]
    /\ nstarted = 0
    /\ ConcUnused

NetFrame == UNCHANGED <<cacheVars, concVars>>

\* a caller enters _make_request (kind "json") or _make_xml_request ("xml")
StartCall(w, kind) ==
    /\ worker[w].pc \in {"idle", "done"}
    /\ nstarted < MaxNetCalls
    /\ nstarted' = nstarted + 1
    /\ worker' = [worker EXCEPT ![w] = [IdleWorker EXCEPT !.pc = "rl_time",
                                                          !.kind = kind]]
    /\ UNCHANGED <<clock, last_request_time, gatePasses>>
    /\ NetFrame

\* line 185: current_time = time.time()
RateLimitReadTime(w) ==
    /\ worker[w].pc = "rl_time"
    /\ worker' = [worker EXCEPT ![w].pc = "rl_check",
                                ![w].current_time = clock]
    /\ UNCHANGED <<clock, last_request_time, gatePasses, nstarted>>
    /\ NetFrame

\* lines 186-188: read last_request_time, sleep for the remainder if any
RateLimitCheck(w) ==
    /\ worker[w].pc = "rl_check"
    /\ LET time_since_last == worker[w].current_time - last_request_time IN
        IF time_since_last < MIN_REQUEST_INTERVAL
        THEN worker' = [worker EXCEPT
                ![w].pc = "rl_sleep",
                ![w].wake = clock + (MIN_REQUEST_INTERVAL - time_since_last)]
        ELSE worker' = [worker EXCEPT ![w].pc = "rl_stamp"]
    /\ UNCHANGED <<clock, last_request_time, gatePasses, nstarted>>
    /\ NetFrame

\* time.sleep returns
WakeUp(w) ==
    /\ worker[w].pc \in {"rl_sleep", "backoff"}
    /\ clock >= worker[w].wake
    /\ worker' = [worker EXCEPT
            ![w].pc = IF worker[w].pc = "rl_sleep" THEN "rl_stamp"
                      ELSE "rl_time",
            ![w].wake = 0]
    /\ UNCHANGED <<clock, last_request_time, gatePasses, nstarted>>
    /\ NetFrame

\* line 189: self.last_request_time = time.time(); the caller leaves the gate
RateLimitStamp(w) ==
    /\ worker[w].pc = "rl_stamp"
    /\ last_request_time' = clock
    /\ gatePasses' = IF Len(gatePasses) < 2 THEN Append(gatePasses, clock)
                     ELSE <<gatePasses[2], clock>>
    /\ worker' = [worker EXCEPT ![w].pc = "send", ![w].current_time = 0]
    /\ UNCHANGED <<clock, nstarted>>
    /\ NetFrame

\* session.get, raise_for_status, response.json() and the except clauses
Send(w, outcome) ==
    /\ worker[w].pc = "send"
    /\ outcome \in OutcomesOf(worker[w].kind)
    /\ LET kind == worker[w].kind
           d == Disposition(kind, outcome)
       IN
        /\ d = "retry" => worker[w].nreq + 1 < MaxAttempts
        /\ worker' = [worker EXCEPT
                ![w].nreq = @ + 1,
                ![w].outcome = outcome,
                ![w].pc = IF d = "retry" THEN "backoff" ELSE "done",
                ![w].wake = IF d = "retry" THEN clock + RETRY_SLEEP ELSE 0,
                ![w].ret = IF d = "return" THEN ReturnValue(kind, outcome)
                           ELSE None,
                ![w].raised = (d = "raise")]
    /\ UNCHANGED <<clock, last_request_time, gatePasses, nstarted>>
    /\ NetFrame

TickNet ==
    /\ clock < MaxClock
    /\ clock' = clock + 1
    /\ UNCHANGED <<last_request_time, gatePasses, worker, nstarted>>
    /\ NetFrame

NextNet ==
    \/ \E w \in Workers, kind \in {"json", "xml"} : StartCall(w, kind)
    \/ \E w \in Workers : RateLimitReadTime(w)
    \/ \E w \in Workers : RateLimitCheck(w)
    \/ \E w \in Workers : WakeUp(w)
    \/ \E w \in Workers : RateLimitStamp(w)
    \/ \E w \in Workers, o \in Outcomes : Send(w, o)
    \/ TickNet

SpecNet == InitNet /\ [][NextNet]_vars
(***************************************************************************)
(* C4: a 429 is retried exactly once; a second 429 makes _make_request     *)
(* return None, so one call issues at most 2 requests.                     *)
(***************************************************************************)
C4_RetryOnce ==
    \A w \in Workers :
        worker[w].kind = "json" =>
            /\ worker[w].nreq <= 2
            /\ (worker[w].nreq = 2 /\ worker[w].outcome = "http_429") =>
                    (worker[w].pc = "done" /\ worker[w].ret = None)

(***************************************************************************)
(* C5: on a non-429 HTTP error, a connection error, a timeout or a body    *)
(* that is not JSON, _make_request and _make_xml_request return None and   *)
(* raise nothing to the caller.                                            *)
(***************************************************************************)
FailuresOf(kind) ==
    IF kind = "json" THEN {"http_error", "connection_error", "timeout",
                           "bad_json"}
    ELSE {"http_error", "connection_error", "timeout"}

C5_FailureReturnsNone ==
    \A w \in Workers :
        (worker[w].nreq > 0 /\ worker[w].pc \notin {"send", "rl_time",
                                                    "rl_check", "rl_sleep",
                                                    "rl_stamp"}
         /\ worker[w].outcome \in FailuresOf(worker[w].kind)) =>
            /\ worker[w].pc = "done"
            /\ worker[w].ret = None
            /\ ~worker[w].raised

\* an RSS fetch met a connection error, a JSON call a body that is not JSON
C5_Witness ==
    /\ worker["w1"].pc = "done"
    /\ worker["w1"].kind = "xml"
    /\ worker["w1"].outcome = "connection_error"
    /\ worker["w1"].ret = None
    /\ worker["w2"].pc = "done"
    /\ worker["w2"].kind = "json"
    /\ worker["w2"].outcome = "bad_json"

(***************************************************************************)
(* C6: any two callers leave the rate-limit gate at least                  *)
(* min_request_interval apart, whatever the interleaving.                  *)
(***************************************************************************)
C6_GateSpacing ==
    Len(gatePasses) = 2 =>
        gatePasses[2] - gatePasses[1] >= MIN_REQUEST_INTERVAL
(***************************************************************************)
(* Specification SpecConc: the worker threads of                           *)
(* batch_process_mixed_requests running cached operations on the one       *)
(* handler.  SimpleCache.get is taken statement by statement, the          *)
(* read-modify-write of a counter in two steps; no lock is held anywhere.  *)
(***************************************************************************)
Threads == {"t1", "t2"}

\* the tasks of a batch: a cached operation called with **params
Tasks ==
    { [func |-> "get_channel_videos_rss",
       args |-> <<Kw("channel_id", "UC1")>>],
      [func |-> "get_channel_by_handle", args |-> <<Kw("handle", "@a")>>] }

\* what the operation's body can return when the wrapper runs it
BodyResults(func) ==
    IF func = "get_channel_videos_rss"
    THEN {channel_videos_rss_body(None)}
    ELSE {channel_by_handle_body(a) : a \in ChannelAnswers}

IdleThread ==
    [pc |-> "idle", func |-> "none", key |-> <<>>, entry |-> None, tmp |-> 0,
     result |-> None, out |-> None, raised |-> FALSE]

InitConc ==
    /\ cache = SimpleCache_init.cache
    /\ stats = SimpleCache_init.stats
    /\ now = 0
    /\ ngets = 0
    /\ lastSet = <<>>
    /\ last = [op |-> "init"]
    /\ nops = 0
    /\ NetUnused
    /\ thread = [t \in Threads |-> IdleThread]
    /\ nraised = 0
    /\ batch = <<>>
    /\ keyuse = <<>>

ConcFrame == UNCHANGED <<lastSet, last, nops, netVars, batch, keyuse>>

\* executor.submit(...): wrapper lines 62-67, up to the call of cache.get
BeginTask(t, task) ==
    /\ thread[t].pc \in {"idle", "done"}
    /\ ngets < MaxConcGets
    /\ ngets' = ngets + 1
    /\ thread' = [thread EXCEPT ![t] =
            [IdleThread EXCEPT !.pc = "get_in", !.func = task.func,
                               !.key = cache_key(task.func, task.args)]]
    /\ UNCHANGED <<cache, stats, now, nraised>>
    /\ ConcFrame

\* line 39: if key in self._cache
GetContains(t) ==
    /\ thread[t].pc = "get_in"
    /\ thread' = [thread EXCEPT ![t].pc =
            IF thread[t].key \in DOMAIN cache THEN "get_load" ELSE "miss_read"]
    /\ UNCHANGED <<cache, stats, now, ngets, nraised>>
    /\ ConcFrame

\* line 40: entry = self._cache[key]   (KeyError when the key has gone)
GetLoad(t) ==
    /\ thread[t].pc = "get_load"
    /\ IF thread[t].key \in DOMAIN cache
       THEN /\ thread' = [thread EXCEPT ![t].pc = "get_expired",
                              ![t].entry = Some(cache[thread[t].key])]
            /\ UNCHANGED nraised
       ELSE /\ thread' = [thread EXCEPT ![t].pc = "done", ![t].raised = TRUE]
            /\ nraised' = nraised + 1
    /\ UNCHANGED <<cache, stats, now, ngets>>
    /\ ConcFrame

\* line 41: if not entry.is_expired()
GetExpired(t) ==
    /\ thread[t].pc = "get_expired"
    /\ thread' = [thread EXCEPT ![t].pc =
            IF ~is_expired(thread[t].entry[1], now) THEN "hit_read"
            ELSE "get_del"]
    /\ UNCHANGED <<cache, stats, now, ngets, nraised>>
    /\ ConcFrame

\* line 42, first half: read self._stats['hits']
HitRead(t) ==
    /\ thread[t].pc = "hit_read"
    /\ thread' = [thread EXCEPT ![t].pc = "hit_write", ![t].tmp = stats.hits]
    /\ UNCHANGED <<cache, stats, now, ngets, nraised>>
    /\ ConcFrame

\* line 42, second half, and line 43; then the wrapper's lines 68-75
HitWrite(t) ==
    /\ thread[t].pc = "hit_write"
    /\ stats' = [stats EXCEPT !.hits = thread[t].tmp + 1]
    /\ thread' = [thread EXCEPT ![t].pc = "done",
            ![t].out = Some(Result(Some(thread[t].entry[1].data), TRUE, "hit"))]
    /\ UNCHANGED <<cache, now, ngets, nraised>>
    /\ ConcFrame

\* line 45: del self._cache[key]   (KeyError when the key has gone)
GetDel(t) ==
    /\ thread[t].pc = "get_del"
    /\ IF thread[t].key \in DOMAIN cache
       THEN /\ cache' = Without(cache, thread[t].key)
            /\ thread' = [thread EXCEPT ![t].pc = "miss_read"]
            /\ UNCHANGED nraised
       ELSE /\ thread' = [thread EXCEPT ![t].pc = "done", ![t].raised = TRUE]
            /\ nraised' = nraised + 1
            /\ UNCHANGED cache
    /\ UNCHANGED <<stats, now, ngets>>
    /\ ConcFrame

\* line 46, first half: read self._stats['misses']
MissRead(t) ==
    /\ thread[t].pc = "miss_read"
    /\ thread' = [thread EXCEPT ![t].pc = "miss_write", ![t].tmp = stats.misses]
    /\ UNCHANGED <<cache, stats, now, ngets, nraised>>
    /\ ConcFrame

\* line 46, second half, and line 47
MissWrite(t) ==
    /\ thread[t].pc = "miss_write"
    /\ stats' = [stats EXCEPT !.misses = thread[t].tmp + 1]
    /\ thread' = [thread EXCEPT ![t].pc = "fetch"]
    /\ UNCHANGED <<cache, now, ngets, nraised>>
    /\ ConcFrame

\* line 78: result = func(self, *args, **kwargs)
Fetch(t, result) ==
    /\ thread[t].pc = "fetch"
    /\ result \in BodyResults(thread[t].func)
    /\ thread' = [thread EXCEPT
            ![t].pc = IF result # None THEN "store" ELSE "done",
            ![t].result = result,
            ![t].out = Some(Result(result, FALSE, "miss"))]
    /\ UNCHANGED <<cache, stats, now, ngets, nraised>>
    /\ ConcFrame

\* line 81: self.cache.set(cache_key, result, ttl)
Store(t) ==
    /\ thread[t].pc = "store"
    /\ cache' = SimpleCache_set(TheCache, thread[t].key, thread[t].result[1],
                                TtlOf(thread[t].func), now).cache
    /\ thread' = [thread EXCEPT ![t].pc = "done"]
    /\ UNCHANGED <<stats, now, ngets, nraised>>
    /\ ConcFrame

TickConc ==
    /\ now < MaxConcTime
    /\ now' = now + 1
    /\ UNCHANGED <<cache, stats, ngets, thread, nraised>>
    /\ ConcFrame

NextConc ==
    \/ \E t \in Threads, task \in Tasks : BeginTask(t, task)
    \/ \E t \in Threads : GetContains(t)
    \/ \E t \in Threads : GetLoad(t)
    \/ \E t \in Threads : GetExpired(t)
    \/ \E t \in Threads : HitRead(t)
    \/ \E t \in Threads : HitWrite(t)
    \/ \E t \in Threads : GetDel(t)
    \/ \E t \in Threads : MissRead(t)
    \/ \E t \in Threads : MissWrite(t)
    \/ \E t \in Threads : \E r \in BodyResults(thread[t].func) : Fetch(t, r)
    \/ \E t \in Threads : Store(t)
    \/ TickConc

SpecConc == InitConc /\ [][NextConc]_vars

(***************************************************************************)
(* C7: no update of the hit/miss counters is lost: once every task of a    *)
(* batch has finished, hits + misses equals the number of SimpleCache.get  *)
(* calls made (none of which raised).                                      *)
(***************************************************************************)
AllTasksFinished == \A t \in Threads : thread[t].pc \in {"idle", "done"}

C7_NoLostUpdate ==
    (AllTasksFinished /\ nraised = 0) => stats.hits + stats.misses = ngets

(***************************************************************************)
(* C11: for a channel whose feed has no video, get_channel_recent_videos   *)
(* returns the formatted channel and the no-data analytics block, with     *)
(* cache_status 'hit' and from_cache true when the channel and the RSS     *)
(* fetch were both served from the cache, and 'miss' and false when        *)
(* neither was.                                                            *)
(***************************************************************************)
C11_NoVideosStatus ==
    [][(/\ IsOrchStep
        /\ ~NoData(last'.channel_result)
        /\ last'.rss_videos = <<>>) =>
        LET chHit == LiveEntry(cache_key("get_channel_by_handle",
                                         <<Pos(last'.handle)>>))
            rssHit == LiveEntry(cache_key("get_channel_videos_rss",
                            <<Pos(last'.channel_result.data[1].id)>>))
            out == last'.out
        IN  /\ out.data.channel.id = last'.channel_result.data[1].id
            /\ out.data.analytics.message = "No videos found for analytics"
            /\ (chHit /\ rssHit) =>
                    (out.cache_status = "hit" /\ out.from_cache)
            /\ (~chHit /\ ~rssHit) =>
                    (out.cache_status = "miss" /\ ~out.from_cache)]_vars

(***************************************************************************)
(* Specification SpecBatch: one run of batch_process_mixed_requests.       *)
(* Time is counted in ticks of 10 s from the first submit; the submit loop *)
(* itself takes no time.  A task is what the executor runs for one config: *)
(* it takes dur ticks once a worker picks it up and then returns a value   *)
(* or raises.                                                              *)
(***************************************************************************)
MaxBatch == 3

\* future.result(timeout=30)
RESULT_TIMEOUT == 3
\* ThreadPoolExecutor(max_workers=self.max_concurrent_workers), configured to 2
MAX_CONCURRENT_WORKERS == 2

RequestTypes == {"channel_by_handle", "channels_by_id", "videos_by_id",
                 "channel_rss", "channel_recent_videos"}

\* one config of the batch: type is config.get('type'); params is a mapping
\* with the operation's arguments ("ok"), absent or a mapping without the
\* required argument ("missing"), or not a mapping ("notmapping"); dur and
\* raises say how the operation behaves when called with good arguments
Config(type, params, dur, raises) ==
    [type |-> type, params |-> params, dur |-> dur, raises |-> raises]

Configs ==
    { Config(Some("channel_by_handle"), "ok", 0, FALSE),
      Config(Some("channel_rss"), "ok", RESULT_TIMEOUT + 1, FALSE),
      Config(Some("channel_rss"), "ok", RESULT_TIMEOUT + 2, FALSE),
      Config(Some("channel_rss"), "ok", 3 * RESULT_TIMEOUT + 1, FALSE),
      Config(Some("channel_recent_videos"), "ok", 0, TRUE),
      Config(Some("bogus"), "ok", 0, FALSE),
      Config(None, "ok", 0, FALSE),
      Config(Some("channel_rss"), "missing", 0, FALSE),
      Config(Some("channel_rss"), "notmapping", 0, FALSE) }

BatchInputs == UNION {[1..n -> Configs] : n \in 1..MaxBatch}

\* f"{request_type}_{i}"
slot_key(request_type, i) ==
    <<IF request_type = None THEN "None" ELSE request_type[1], i>>

\* what the operation of config number i (from 0) returns
task_value(i) == Result(Some(<<"payload", i>>), FALSE, "miss")

\* a call with **{} lacks the required argument: TypeError inside the task
task_raises(config) == config.raises \/ config.params = "missing"
task_dur(config) == IF config.params = "missing" THEN 0 ELSE config.dur

\* the executor: tasks queue in submission order and each goes to the worker
\* that is free first; gives the time at which each task finishes
RECURSIVE Schedule(_, _, _)
Schedule(durs, free, k) ==
    IF k > Len(durs) THEN <<>>
    ELSE LET w == CHOOSE w \in 1..Len(free) :
                    \A v \in 1..Len(free) : free[w] <= free[v]
             f == free[w] + durs[k]
         IN  <<f>> \o Schedule(durs, [free EXCEPT ![w] = f], k + 1)

\* finish time of the tasks submitted so far (futures, in submission order)
FinishTimes(configs, futures) ==
    Schedule([k \in 1..Len(futures) |-> task_dur(configs[futures[k].task])],
             [w \in 1..MAX_CONCURRENT_WORKERS |-> 0], 1)

InitBatch ==
    /\ cache = SimpleCache_init.cache
    /\ stats = SimpleCache_init.stats
    /\ now = 0
    /\ ngets = 0
    /\ lastSet = <<>>
    /\ last = [op |-> "init"]
    /\ nops = 0
    /\ NetUnused
    /\ thread = <<>>
    /\ nraised = 0
    /\ keyuse = <<>>
    /\ \E configs \in BatchInputs :
        batch = [requests_config |-> configs,
                 pc |-> "submit",
                 i |-> 1,             \* enumerate index + 1
                 future |-> None,     \* the local 'future': unbound, or the
                                      \* config number whose task it stands for
                 futures |-> <<>>,    \* the dict futures, in insertion order
                 j |-> 1,             \* position of the collecting loop
                 t |-> 0,             \* time at the collecting loop
                 results |-> <<>>,
                 error |-> "none"]

BatchFrame == UNCHANGED <<cacheVars, netVars, thread, nraised, keyuse>>

\* futures[future] = key: a new future is appended, a known one keeps its
\* place and gets the new key
dict_set(futures, task, key) ==
    IF \E k \in 1..Len(futures) : futures[k].task = task
    THEN [k \in 1..Len(futures) |->
            IF futures[k].task = task THEN [task |-> task, key |-> key]
            ELSE futures[k]]
    ELSE Append(futures, [task |-> task, key |-> key])

\* lines 698-713: one round of the submit loop
Submit ==
    /\ batch.pc = "submit"
    /\ batch.i <= Len(batch.requests_config)
    /\ LET config == batch.requests_config[batch.i]
           request_type == config.type
           key == slot_key(request_type, batch.i - 1)
           recognised == request_type # None /\ request_type[1] \in RequestTypes
       IN  IF recognised /\ config.params = "notmapping"
           THEN \* executor.submit(f, **params) raises TypeError
                batch' = [batch EXCEPT !.pc = "raised", !.error = "TypeError"]
           ELSE IF ~recognised /\ batch.future = None
           THEN \* futures[future]: local variable referenced before assignment
                batch' = [batch EXCEPT !.pc = "raised",
                                       !.error = "UnboundLocalError"]
           ELSE LET future == IF recognised THEN Some(batch.i)
                              ELSE batch.future
                    last_round == batch.i = Len(batch.requests_config)
                IN  batch' = [batch EXCEPT
                        !.future = future,
                        !.futures = dict_set(batch.futures, future[1], key),
                        !.i = batch.i + 1,
                        !.pc = IF last_round THEN "collect" ELSE "submit"]
    /\ BatchFrame

\* lines 716-722: one round of the collecting loop
Collect ==
    /\ batch.pc = "collect"
    /\ batch.j <= Len(batch.futures)
    /\ LET f == batch.futures[batch.j]
           config == batch.requests_config[f.task]
           finish == FinishTimes(batch.requests_config, batch.futures)[batch.j]
           in_time == finish <= batch.t + RESULT_TIMEOUT
           result == IF in_time /\ ~task_raises(config)
                     THEN Some(task_value(f.task - 1)) ELSE None
       IN  batch' = [batch EXCEPT
                !.results = With(batch.results, f.key, result),
                !.t = IF in_time THEN Max(batch.t, finish)
                      ELSE batch.t + RESULT_TIMEOUT,
                !.j = batch.j + 1]
    /\ BatchFrame

\* leaving the with block (every submitted task has finished) and line 724
Return ==
    /\ batch.pc = "collect"
    /\ batch.j > Len(batch.futures)
    /\ LET finish == FinishTimes(batch.requests_config, batch.futures)
       IN  batch' = [batch EXCEPT
                !.pc = "returned",
                !.t = IF finish = <<>> THEN batch.t
                      ELSE Max(batch.t,
                               CHOOSE m \in {finish[k] : k \in DOMAIN finish} :
                                   \A k \in DOMAIN finish : finish[k] <= m)]
    /\ BatchFrame

NextBatch == Submit \/ Collect \/ Return

SpecBatch == InitBatch /\ [][NextBatch]_vars

\* a config with a recognised type and a mapping holding the arguments
WellFormed(config) ==
    /\ config.type # None
    /\ config.type[1] \in RequestTypes
    /\ config.params = "ok"

BatchKey(i) == slot_key(batch.requests_config[i].type, i - 1)

(***************************************************************************)
(* C12: in a batch of well-formed configs, a task that raises or runs      *)
(* longer than the per-task timeout has None in its own slot, and every    *)
(* other task has its own result under its own key '<type>_<index>'.       *)
(***************************************************************************)
C12_TaskIsolation ==
    (/\ batch.pc = "returned"
     /\ \A i \in DOMAIN batch.requests_config :
            WellFormed(batch.requests_config[i])) =>
        \A i \in DOMAIN batch.requests_config :
            LET config == batch.requests_config[i] IN
            /\ BatchKey(i) \in DOMAIN batch.results
            /\ batch.results[BatchKey(i)] =
                  IF config.raises \/ config.dur > RESULT_TIMEOUT THEN None
                  ELSE Some(task_value(i - 1))

(***************************************************************************)
(* C13: a batch of n configs never raises and returns exactly n entries;   *)
(* a malformed config (type missing or unrecognised, params missing or not *)
(* a mapping) has None in its slot and every well-formed config whose      *)
(* operation returns at once has its result in its own slot, wherever the  *)
(* malformed config stands in the list.                                    *)
(***************************************************************************)
C13_MalformedItem ==
    /\ batch.pc # "raised"
    /\ batch.pc = "returned" =>
        /\ Cardinality(DOMAIN batch.results) = Len(batch.requests_config)
        /\ \A i \in DOMAIN batch.requests_config :
            LET config == batch.requests_config[i] IN
            /\ BatchKey(i) \in DOMAIN batch.results
            /\ ~WellFormed(config) => batch.results[BatchKey(i)] = None
            /\ (WellFormed(config) /\ ~config.raises /\ config.dur = 0
                /\ \A k \in DOMAIN batch.requests_config :
                      batch.requests_config[k].dur = 0) =>
                    batch.results[BatchKey(i)] = Some(task_value(i - 1))

(***************************************************************************)
(* Specification SpecKeys: the credential of outbound JSON calls.  The     *)
(* configuration lists the keys; upstream counts the requests made with    *)
(* each key in the current quota window and refuses a key that is over its *)
(* quota (HTTP 403, which _make_request turns into None).  The daily quota *)
(* is configured to 2; the hourly window behaves alike and is left out.    *)
(***************************************************************************)
MaxKeyCalls == 3

\* Config.YOUTUBE_API_KEYS after load_api_keys
YOUTUBE_API_KEYS == <<"A", "B", "C">>
YOUTUBE_API_KEY_DAILY_QUOTA == 2

KeySet == {YOUTUBE_API_KEYS[i] : i \in DOMAIN YOUTUBE_API_KEYS}

\* YouTubeAPIHandler.__init__: self.api_key = api_key or Config.YOUTUBE_API_KEY
handler_api_key == YOUTUBE_API_KEYS[1]

\* _make_request: params['key'] = self.api_key
request_key == handler_api_key

Exhausted(k) == keyuse.daily_requests[k] >= YOUTUBE_API_KEY_DAILY_QUOTA

UsableKeys == {k \in KeySet : ~Exhausted(k)}

\* the methods class YouTubeAPIHandler defines
HandlerMethods ==
    {"get_channel_by_handle", "get_channels_by_id", "get_videos_by_id",
     "get_channel_videos_rss", "get_channel_recent_videos", "get_cache_stats",
     "clear_cache", "batch_process_mixed_requests"}

\* @handle_errors: an exception in the route becomes a 500 answer
handle_errors(exception) ==
    [status |-> 500, success |-> FALSE, error |-> "Internal server error",
     message |-> exception]

\* GET /api/channel/<handle>, given the handler's result
route_channel_by_handle(result) ==
    IF result.data = None \/ Falsy(result.data[1])
    THEN [status |-> 404, success |-> FALSE, error |-> "Channel not found"]
    ELSE [status |-> 200, success |-> TRUE,
          data |-> format_channel_response(result.data[1], None),
          from_cache |-> result.from_cache,
          cache_status |-> result.cache_status]

\* GET /api/keys/stats
route_api_key_stats ==
    IF "get_key_usage_stats" \in HandlerMethods
    THEN [status |-> 200, success |-> TRUE,
          data |-> [rotation_strategy |-> "round_robin",
                    total_keys |-> Len(YOUTUBE_API_KEYS)]]
    ELSE handle_errors("AttributeError")

KeyHandles == {"@a", "@b"}

InitKeys ==
    /\ cache = SimpleCache_init.cache
    /\ stats = SimpleCache_init.stats
    /\ now = 0
    /\ ngets = 0
    /\ lastSet = <<>>
    /\ last = [op |-> "init"]
    /\ nops = 0
    /\ NetUnused
    /\ thread = <<>>
    /\ nraised = 0
    /\ batch = <<>>
    /\ keyuse = [daily_requests |-> [k \in KeySet |-> 0],
                 selected |-> <<>>]

KeysFrame == UNCHANGED <<now, lastSet, nops, netVars, thread, nraised, batch>>

\* upstream counts one request made with key k
Counted(k) == [keyuse EXCEPT !.daily_requests[k] = @ + 1]

\* GET /api/channel/<handle>: the route, the cached operation and, on a
\* miss, the request; found says whether upstream knows the handle
GetChannelByHandle(handle, found) ==
    /\ ngets < MaxKeyCalls
    /\ LET k == request_key
           answer == IF Exhausted(k) THEN None
                     ELSE IF found THEN Some([items |-> <<RawChannel(100)>>])
                     ELSE Some([items |-> <<>>])
           w == wrapper(TheCache, "get_channel_by_handle",
                        <<Pos(handle), Pos(None)>>, CACHE_TTL_CHANNEL, now,
                        channel_by_handle_body(answer))
       IN  /\ cache' = w.c.cache
           /\ stats' = w.c.stats
           /\ ngets' = ngets + 1
           /\ keyuse' =
                IF ~w.ran THEN keyuse
                ELSE [(IF Exhausted(k) THEN keyuse ELSE Counted(k))
                        EXCEPT !.selected =
                            Append(@, [key |-> k, usable |-> UsableKeys])]
           /\ last' = [op |-> "route_channel_by_handle", ran |-> w.ran,
                       response |-> route_channel_by_handle(w.out)]
    /\ KeysFrame

\* GET /api/keys/stats
GetApiKeyStats ==
    /\ last' = [op |-> "route_api_key_stats",
                response |-> route_api_key_stats]
    /\ UNCHANGED <<cache, stats, ngets, keyuse>>
    /\ KeysFrame

\* a request made elsewhere with key k
OtherUse(k) ==
    /\ ~Exhausted(k)
    /\ keyuse' = Counted(k)
    /\ UNCHANGED <<cache, stats, ngets, last>>
    /\ KeysFrame

DailyReset ==
    /\ keyuse' = [keyuse EXCEPT !.daily_requests = [k \in KeySet |-> 0]]
    /\ UNCHANGED <<cache, stats, ngets, last>>
    /\ KeysFrame

NextKeys ==
    \/ \E h \in KeyHandles, found \in BOOLEAN : GetChannelByHandle(h, found)
    \/ GetApiKeyStats
    \/ \E k \in KeySet : OtherUse(k)
    \/ DailyReset

SpecKeys == InitKeys /\ [][NextKeys]_vars

KeyIndex(k) == CHOOSE i \in DOMAIN YOUTUBE_API_KEYS : YOUTUBE_API_KEYS[i] = k

\* the first usable key after prev in the cyclic order of the configuration
CyclicNext(prev, usable) ==
    LET n == Len(YOUTUBE_API_KEYS)
        at(d) == YOUTUBE_API_KEYS[((KeyIndex(prev) - 1 + d) % n) + 1]
        d == CHOOSE d \in 1..n :
                at(d) \in usable /\ \A e \in 1..(d - 1) : at(e) \notin usable
    IN  at(d)

(***************************************************************************)
(* C14: with keys [A, B, C] under round_robin, the keys attached to        *)
(* successive outbound calls follow the cyclic order A, B, C, A, ...,      *)
(* skipping every key that is over its quota at the time of the call.      *)
(***************************************************************************)
C14_RoundRobin ==
    \A n \in 1..Len(keyuse.selected) :
        keyuse.selected[n].usable # {} =>
            keyuse.selected[n].key =
                CyclicNext(IF n = 1
                           THEN YOUTUBE_API_KEYS[Len(YOUTUBE_API_KEYS)]
                           ELSE keyuse.selected[n - 1].key,
                           keyuse.selected[n].usable)

(***************************************************************************)
(* C15: when every configured key is over quota, an operation that needs   *)
(* an upstream call fails with an explicit error: the gateway does not     *)
(* answer with the 404 of a channel that was not found.                    *)
(***************************************************************************)
C15_ExhaustionIsExplicit ==
    (/\ last.op = "route_channel_by_handle"
     /\ last.ran
     /\ keyuse.selected[Len(keyuse.selected)].usable = {}) =>
        /\ last.response.status # 404
        /\ last.response.status >= 500

(***************************************************************************)
(* C16: GET /api/keys/stats succeeds and returns the rotation strategy,    *)
(* the number of keys and the per-key usage view.                          *)
(***************************************************************************)
C16_KeyStats ==
    last.op = "route_api_key_stats" =>
        /\ last.response.status = 200
        /\ last.response.success
        /\ last.response.data.rotation_strategy = "round_robin"
        /\ last.response.data.total_keys = Len(YOUTUBE_API_KEYS)

(***************************************************************************)
(* Specification SpecForms: the same cached operations invoked in the      *)
(* forms Python allows: arguments by position or by keyword, defaulted     *)
(* arguments left out or given, the handle with or without its '@'.  A     *)
(* handle is a sequence of characters here.                                *)
(***************************************************************************)
MaxFormOps == 2

\* Config.DEFAULT_CHANNEL_PARTS
DEFAULT_CHANNEL_PARTS == <<"snippet", "statistics">>

\* handle.lstrip('@')
RECURSIVE lstrip(_, _)
lstrip(s, ch) ==
    IF s # <<>> /\ Head(s) = ch THEN lstrip(Tail(s), ch) ELSE s

\* the signatures of the cached operations (after self) and their defaults
Signature(func_name) ==
    IF func_name = "get_channel_by_handle" THEN <<"handle", "parts">>
    ELSE <<"channel_id">>

\* the value the body sees for parameter name
Argument(func_name, args, name) ==
    IF \E i \in 1..Len(args) : args[i].kw = name
    THEN args[CHOOSE i \in 1..Len(args) : args[i].kw = name].val
    ELSE IF \E i \in 1..Len(args) :
                args[i].kw = "" /\ Signature(func_name)[i] = name
    THEN args[CHOOSE i \in 1..Len(args) :
                args[i].kw = "" /\ Signature(func_name)[i] = name].val
    ELSE None

\* lines 233-242: the request get_channel_by_handle sends
channel_by_handle_request(args) ==
    LET parts == Argument("get_channel_by_handle", args, "parts")
        handle == Argument("get_channel_by_handle", args, "handle")
    IN  [part |-> IF parts = None THEN DEFAULT_CHANNEL_PARTS ELSE parts[1],
         forHandle |-> <<"@">> \o lstrip(handle, "@")]

\* upstream knows the channel @a
AnswerFor(request) ==
    IF request.forHandle = <<"@", "a">>
    THEN Some([items |-> <<RawChannel(100)>>])
    ELSE Some([items |-> <<>>])

FormHandles == {<<"@", "a">>, <<"a">>, <<"b">>}
FormParts == {None, Some(DEFAULT_CHANNEL_PARTS), Some(<<"snippet">>)}

ChannelByHandleForms ==
    UNION { {<<Pos(h)>>, <<Kw("handle", h)>>}
            \cup UNION { {<<Pos(h), Pos(p)>>,
                          <<Pos(h), Kw("parts", p)>>,
                          <<Kw("handle", h), Kw("parts", p)>>,
                          <<Kw("parts", p), Kw("handle", h)>>}
                         : p \in FormParts }
            : h \in FormHandles }

RssForms == {<<Pos(<<"UC1">>)>>, <<Kw("channel_id", <<"UC1">>)>>}

InitForms == InitOrch

\* one call of a cached operation with the given arguments
CallForm(func_name, args, result) ==
    /\ nops < MaxFormOps
    /\ LET w == wrapper(TheCache, func_name, args, TtlOf(func_name), now,
                        result)
       IN  /\ cache' = w.c.cache
           /\ stats' = w.c.stats
           /\ last' = [op |-> func_name, args |-> args,
                       key |-> cache_key(func_name, args),
                       out |-> w.out, ran |-> w.ran,
                       prev |-> IF last.op = "init" THEN None
                                ELSE Some([op |-> last.op, args |-> last.args,
                                           key |-> last.key])]
    /\ ngets' = ngets + 1
    /\ nops' = nops + 1
    /\ UNCHANGED <<now, lastSet, netVars, concVars>>

FormChannelByHandle(args) ==
    CallForm("get_channel_by_handle", args,
             channel_by_handle_body(AnswerFor(channel_by_handle_request(args))))

FormChannelVideosRss(args) ==
    CallForm("get_channel_videos_rss", args, channel_videos_rss_body(None))

NextForms ==
    \/ \E args \in ChannelByHandleForms : FormChannelByHandle(args)
    \/ \E args \in RssForms : FormChannelVideosRss(args)
    \/ TickOrch

SpecForms == InitForms /\ [][NextForms]_vars

\* the call as the operation's body sees it: every parameter bound, the
\* default filled in, the handle without its '@'
LogicalCall(func_name, args) ==
    IF func_name = "get_channel_by_handle"
    THEN <<func_name, channel_by_handle_request(args)>>
    ELSE <<func_name, Argument(func_name, args, "channel_id")>>

(***************************************************************************)
(* C17: two invocations use the same cache key exactly when they are the   *)
(* same operation with the same logical arguments, however the arguments   *)
(* are passed.                                                             *)
(***************************************************************************)
C17_KeyOfLogicalCall ==
    (last.op \in CachedOps /\ "prev" \in DOMAIN last /\ last.prev # None) =>
        LET p == last.prev[1] IN
        (last.key = p.key) <=>
            (LogicalCall(last.op, last.args) = LogicalCall(p.op, p.args))

(***************************************************************************)
(* Specification SpecParse: _parse_rss_feed applied to one feed text.      *)
(***************************************************************************)
MaxEntries == 2

ViewsTexts == {<<"4", "2">>, <<"1", "k">>, <<>>}

ParseEntries ==
    [link : {None, Some(UrlWatch), Some(UrlShorts), Some(UrlOther),
            Some(UrlBoth)},
     title : {None, Some(<<"t">>)},
     stats : {None, Some(None)} \cup {Some(Some(v)) : v \in ViewsTexts}]

ParseInputs ==
    [wellformed : BOOLEAN,
     entries : UNION {[1..n -> ParseEntries] : n \in 0..MaxEntries}]

InitParse ==
    /\ cache = SimpleCache_init.cache
    /\ stats = SimpleCache_init.stats
    /\ now = 0
    /\ ngets = 0
    /\ lastSet = <<>>
    /\ nops = 0
    /\ NetUnused
    /\ ConcUnused
    /\ \E xml \in ParseInputs : last = [op |-> "input", xml_content |-> xml]

ParseRssFeed ==
    /\ last.op = "input"
    /\ last' = [op |-> "_parse_rss_feed", xml_content |-> last.xml_content,
                call |-> parse_rss_feed_call(last.xml_content)]
    /\ UNCHANGED <<cache, stats, now, ngets, lastSet, nops, netVars, concVars>>

NextParse == ParseRssFeed

SpecParse == InitParse /\ [][NextParse]_vars

(***************************************************************************)
(* C18: _parse_rss_feed raises for no feed text: malformed XML gives the   *)
(* empty list; well-formed XML gives one stub per entry, also when an      *)
(* entry lacks its link, title or statistics or carries a views attribute  *)
(* that is not a number, views_from_rss being 0 where no number is given.  *)
(***************************************************************************)
C18_ParserNeverRaises ==
    last.op = "_parse_rss_feed" =>
        LET xml == last.xml_content
            call == last.call
        IN  /\ call.raised = "none"
            /\ ~xml.wellformed => call.value = Some(<<>>)
            /\ xml.wellformed =>
                /\ Len(call.value[1]) = Len(xml.entries)
                /\ \A i \in 1..Len(xml.entries) :
                    (\/ xml.entries[i].stats = None
                     \/ xml.entries[i].stats[1] = None
                     \/ int_raises(xml.entries[i].stats[1][1])) =>
                        call.value[1][i].views_from_rss = 0

(***************************************************************************)
(* Specification SpecFormat: the numeric statistics fields of the          *)
(* formatter and of the orchestrator.  A statistics dict maps a field to   *)
(* None when upstream left it out and to Some(text) otherwise.             *)
(***************************************************************************)
StatTexts == {<<"4", "2">>, <<"0">>, <<"1", "k">>}
StatValues == {None} \cup {Some(v) : v \in StatTexts}

\* int(statistics.get(field, 0))
stat_raises(statistics, field) ==
    statistics[field] # None /\ int_raises(statistics[field][1])

stat_int(statistics, field) ==
    IF statistics[field] = None THEN 0 ELSE int_value(statistics[field][1])

\* a call that converts the given fields: the converted fields, or the
\* exception that leaves it
stats_call(statistics, fields, names) ==
    IF \E i \in 1..Len(fields) : stat_raises(statistics, fields[i])
    THEN [raised |-> "ValueError", value |-> None]
    ELSE [raised |-> "none",
          value |-> Some([n \in {names[i] : i \in 1..Len(names)} |->
                stat_int(statistics,
                         fields[CHOOSE i \in 1..Len(names) : names[i] = n])])]

\* _format_channel_response, lines 526-528 (and 543-544)
format_channel_response_call(statistics) ==
    stats_call(statistics, <<"viewCount", "subscriberCount", "videoCount">>,
               <<"view_count", "subscriber_count", "video_count">>)

\* _format_video_response, lines 570-572
format_video_response_call(statistics) ==
    stats_call(statistics, <<"viewCount", "likeCount", "commentCount">>,
               <<"view_count", "like_count", "comment_count">>)

\* get_channel_recent_videos, line 329
subscriber_count_call(statistics) ==
    stats_call(statistics, <<"subscriberCount">>, <<"subscriber_count">>)

ChannelStatistics ==
    [viewCount : StatValues, subscriberCount : StatValues,
     videoCount : StatValues]

VideoStatistics ==
    [viewCount : StatValues, likeCount : StatValues,
     commentCount : StatValues]

InitFormat ==
    /\ cache = SimpleCache_init.cache
    /\ stats = SimpleCache_init.stats
    /\ now = 0
    /\ ngets = 0
    /\ lastSet = <<>>
    /\ nops = 0
    /\ NetUnused
    /\ ConcUnused
    /\ \/ \E s \in ChannelStatistics :
            last = [op |-> "input", kind |-> "channel", statistics |-> s]
       \/ \E s \in VideoStatistics :
            last = [op |-> "input", kind |-> "video", statistics |-> s]

FormatFrame ==
    UNCHANGED <<cache, stats, now, ngets, lastSet, nops, netVars, concVars>>

FormatChannel ==
    /\ last.op = "input" /\ last.kind = "channel"
    /\ last' = [op |-> "_format_channel_response",
                statistics |-> last.statistics,
                fields |-> <<"viewCount", "subscriberCount", "videoCount">>,
                names |-> <<"view_count", "subscriber_count", "video_count">>,
                call |-> format_channel_response_call(last.statistics)]
    /\ FormatFrame

FormatVideo ==
    /\ last.op = "input" /\ last.kind = "video"
    /\ last' = [op |-> "_format_video_response",
                statistics |-> last.statistics,
                fields |-> <<"viewCount", "likeCount", "commentCount">>,
                names |-> <<"view_count", "like_count", "comment_count">>,
                call |-> format_video_response_call(last.statistics)]
    /\ FormatFrame

ReadSubscriberCount ==
    /\ last.op = "input" /\ last.kind = "channel"
    /\ last' = [op |-> "subscriber_count",
                statistics |-> last.statistics,
                fields |-> <<"subscriberCount">>,
                names |-> <<"subscriber_count">>,
                call |-> subscriber_count_call(last.statistics)]
    /\ FormatFrame

NextFormat == FormatChannel \/ FormatVideo \/ ReadSubscriberCount

SpecFormat == InitFormat /\ [][NextFormat]_vars

(***************************************************************************)
(* C19: converting the statistics never raises, and every numeric field    *)
(* is the upstream number when upstream gave one and 0 when the field is   *)
(* absent or not a number.                                                 *)
(***************************************************************************)
C19_NumericFields ==
    last.op \in {"_format_channel_response", "_format_video_response",
                 "subscriber_count"} =>
        /\ last.call.raised = "none"
        /\ \A i \in 1..Len(last.fields) :
            last.call.value[1][last.names[i]] =
                IF last.statistics[last.fields[i]] # None
                   /\ ~int_raises(last.statistics[last.fields[i]][1])
                THEN int_value(last.statistics[last.fields[i]][1])
                ELSE 0

(***************************************************************************)
(* Specification SpecRate: _calculate_engagement_rate on one partition.    *)
(* The arithmetic is Python's: a float is an IEEE 754 double, kept here as *)
(* its significand m (at most 53 bits, most significant first, <<>> for    *)
(* 0.0) and the number e of those bits that follow the binary point, so    *)
(* the value is m / 2^e.  A rounded rate is counted in units of 0.0001, so *)
(* 1.8 is 18000.                                                           *)
(***************************************************************************)
MaxVideos == 16
Period == 3

RECURSIVE BitsOfNat(_)
BitsOfNat(n) == IF n = 0 THEN <<>> ELSE BitsOfNat(n \div 2) \o <<n % 2>>

RECURSIVE NatOfBits(_)
NatOfBits(bits) ==
    IF bits = <<>> THEN 0
    ELSE IF Len(bits) = 1 THEN bits[1]
    ELSE LET h == Len(bits) \div 2
         IN  NatOfBits(SubSeq(bits, 1, h)) * 2 ^ (Len(bits) - h)
             + NatOfBits(SubSeq(bits, h + 1, Len(bits)))

StripZeros(bits) ==
    LET ones == {i \in 1..Len(bits) : bits[i] = 1}
    IN  IF ones = {} THEN <<>>
        ELSE SubSeq(bits, CHOOSE i \in ones : \A j \in ones : i <= j,
                    Len(bits))

\* bits + 1
Inc(bits) ==
    LET zeros == {i \in 1..Len(bits) : bits[i] = 0}
    IN  IF zeros = {} THEN <<1>> \o [i \in 1..Len(bits) |-> 0]
        ELSE LET z == CHOOSE i \in zeros : \A j \in zeros : j <= i
             IN  [i \in 1..Len(bits) |->
                    IF i < z THEN bits[i] ELSE IF i = z THEN 1 ELSE 0]

\* a significand cut into limbs of LimbBits bits, least significant first,
\* so that every intermediate product fits a machine integer of the checker
LimbBits == 10
LimbBase == 2 ^ LimbBits

Limbs(bits) ==
    [j \in 1..((Len(bits) + LimbBits - 1) \div LimbBits) |->
        LET hi == Len(bits) - LimbBits * (j - 1)
            lo == IF hi > LimbBits THEN hi - LimbBits + 1 ELSE 1
        IN  NatOfBits(SubSeq(bits, lo, hi))]

\* the bits of limbs given most significant first, leading zeros kept
BitsOfLimbsMSB(limbs) ==
    [i \in 1..(LimbBits * Len(limbs)) |->
        (limbs[(i - 1) \div LimbBits + 1]
            \div 2 ^ (LimbBits - 1 - ((i - 1) % LimbBits))) % 2]

ReverseSeq(seq) == [i \in 1..Len(seq) |-> seq[Len(seq) + 1 - i]]

RECURSIVE MulLimbs(_, _, _)
MulLimbs(limbs, k, carry) ==
    IF limbs = <<>>
    THEN IF carry = 0 THEN <<>>
         ELSE <<carry % LimbBase>> \o MulLimbs(<<>>, k, carry \div LimbBase)
    ELSE LET v == Head(limbs) * k + carry
         IN  <<v % LimbBase>> \o MulLimbs(Tail(limbs), k, v \div LimbBase)

\* bits * k for a small k
MulSmall(bits, k) ==
    StripZeros(BitsOfLimbsMSB(ReverseSeq(MulLimbs(Limbs(bits), k, 0))))

\* the next n limbs of the binary expansion of r / b after the point
RECURSIVE Expand(_, _, _)
Expand(r, b, n) ==
    IF n = 0 THEN [limbs |-> <<>>, rem |-> r]
    ELSE LET v == r * LimbBase
             rest == Expand(v % b, b, n - 1)
         IN  [limbs |-> <<v \div b>> \o rest.limbs, rem |-> rest.rem]

\* enough limbs of a quotient a / b >= 2^-16 to hold 53 significant bits
\* and the bit after them
FracLimbs == 7

\* round to nearest, ties to even, to a significand of 53 bits; sticky says
\* that the exact value has further non-zero bits below those given
RoundTo53(bits, e, sticky) ==
    IF Len(bits) <= 53 THEN [m |-> bits, e |-> e]
    ELSE LET kept == SubSeq(bits, 1, 53)
             dropped == SubSeq(bits, 54, Len(bits))
             st == sticky \/ \E i \in 2..Len(dropped) : dropped[i] = 1
             up == dropped[1] = 1 /\ (st \/ kept[53] = 1)
             m1 == IF up THEN Inc(kept) ELSE kept
             ne == e - Len(dropped)
         IN  IF Len(m1) = 54 THEN [m |-> SubSeq(m1, 1, 53), e |-> ne - 1]
             ELSE [m |-> m1, e |-> ne]

\* a / b for ints a >= 0, 0 < b < 2^16 (a = 0 or a / b >= 2^-16)
true_div(a, b) ==
    IF a = 0 THEN [m |-> <<>>, e |-> 0]
    ELSE LET x == Expand(a % b, b, FracLimbs)
         IN  RoundTo53(StripZeros(BitsOfNat(a \div b)
                                    \o BitsOfLimbsMSB(x.limbs)),
                       LimbBits * FracLimbs, x.rem # 0)

\* x * k for a float x >= 0 and a small int k
times(x, k) ==
    IF x.m = <<>> THEN x ELSE RoundTo53(MulSmall(x.m, k), x.e, FALSE)

\* round(x, 4) for a float x >= 0: the nearest multiple of 0.0001 to the
\* exact value of x, ties to even
round4(x) ==
    IF x.m = <<>> THEN 0
    ELSE LET a == MulSmall(x.m, 10000)
             padded == IF Len(a) <= x.e
                       THEN [i \in 1..(x.e + 1 - Len(a)) |-> 0] \o a ELSE a
             n == Len(padded) - x.e
             quot == NatOfBits(SubSeq(padded, 1, n))
             dropped == SubSeq(padded, n + 1, Len(padded))
         IN  IF dropped = <<>> \/ dropped[1] = 0 THEN quot
             ELSE IF \E i \in 2..Len(dropped) : dropped[i] = 1 THEN quot + 1
             ELSE IF quot % 2 = 0 THEN quot ELSE quot + 1

\* video.get(field, 0)
get_or_0(video, field) == IF field \in DOMAIN video THEN video[field] ELSE 0

\* lines 778-782: the loop over recent_videos
RECURSIVE total_engagement(_)
total_engagement(recent_videos) ==
    IF recent_videos = <<>> THEN 0
    ELSE LET video == Head(recent_videos)
             likes == get_or_0(video, "like_count")
             comments == get_or_0(video, "comment_count")
         IN  (likes + comments) + total_engagement(Tail(recent_videos))

\* _calculate_engagement_rate(videos, subscriber_count, video_count)
calculate_engagement_rate(videos, subscriber_count, video_count) ==
    IF videos = <<>> \/ subscriber_count <= 0 \/ video_count <= 0 THEN 0
    ELSE LET recent_videos == SliceTo(videos, video_count)
         IN  IF recent_videos = <<>> THEN 0
             ELSE round4(times(true_div(total_engagement(recent_videos),
                                        subscriber_count), 100))

RateVideos ==
    { [like_count |-> 10, comment_count |-> 2],
      [like_count |-> 5, comment_count |-> 1],
      [comment_count |-> 3] }

\* the partitions: the first n videos of a repeating pattern
Partitions ==
    { [i \in 1..n |-> pattern[((i - 1) % Period) + 1]] :
        pattern \in [1..Period -> RateVideos], n \in 0..MaxVideos }

RateSubscriberCounts == {-1, 0, 7, 640, 1000}
Windows == {6, 15}

InitRate ==
    /\ cache = SimpleCache_init.cache
    /\ stats = SimpleCache_init.stats
    /\ now = 0
    /\ ngets = 0
    /\ lastSet = <<>>
    /\ nops = 0
    /\ NetUnused
    /\ ConcUnused
    /\ \E videos \in Partitions, s \in RateSubscriberCounts, w \in Windows :
        last = [op |-> "input", videos |-> videos, subscriber_count |-> s,
                video_count |-> w]

CalculateEngagementRate ==
    /\ last.op = "input"
    /\ last' = [op |-> "_calculate_engagement_rate",
                videos |-> last.videos,
                subscriber_count |-> last.subscriber_count,
                video_count |-> last.video_count,
                rate |-> calculate_engagement_rate(last.videos,
                            last.subscriber_count, last.video_count)]
    /\ UNCHANGED <<cache, stats, now, ngets, lastSet, nops, netVars, concVars>>

NextRate == CalculateEngagementRate

SpecRate == InitRate /\ [][NextRate]_vars

\* the sum of one field over the first m videos
FieldSum(videos, m, field) ==
    LET RECURSIVE upto(_)
        upto(i) == IF i = 0 THEN 0
                   ELSE upto(i - 1) + (IF field \in DOMAIN videos[i]
                                       THEN videos[i][field] ELSE 0)
    IN  upto(m)

(***************************************************************************)
(* C20: for a partition of n videos, a subscriber count and a window W in  *)
(* {6, 15}, the engagement rate is                                         *)
(* round(100 * (likes + comments of the first min(W, n) videos) /          *)
(* subscriber_count, 4), and 0.0 when the subscriber count is not positive *)
(* or the partition is empty; likes [10, 5], comments [2, 1] and 1000      *)
(* subscribers give 1.8.                                                   *)
(***************************************************************************)
C20_EngagementRate ==
    last.op = "_calculate_engagement_rate" =>
        LET n == Len(last.videos)
            m == IF last.video_count < n THEN last.video_count ELSE n
            sum == FieldSum(last.videos, m, "like_count")
                   + FieldSum(last.videos, m, "comment_count")
        IN  /\ last.video_count \in Windows
            /\ last.rate =
                IF last.subscriber_count <= 0 \/ n = 0 THEN 0
                ELSE round4(true_div(100 * sum, last.subscriber_count))
            /\ (/\ n = 2
                /\ last.videos[1] = [like_count |-> 10, comment_count |-> 2]
                /\ last.videos[2] = [like_count |-> 5, comment_count |-> 1]
                /\ last.subscriber_count = 1000) => last.rate = 18000

(***************************************************************************)
(* Specification SpecType: the format classification of one list of merged *)
(* videos, _categorize_videos_by_type, _analyze_channel_type and the       *)
(* channel_type of _generate_final_metrics, in the same float arithmetic.  *)
(***************************************************************************)
MaxShorts == 8
MaxLong == 5
MaxUnknown == 2

Zeros(n) == [i \in 1..n |-> 0]

\* the significand of x written with e bits after the point, e >= x.e
AlignTo(x, e) == x.m \o Zeros(e - x.e)

RECURSIVE AddLimbs(_, _, _)
AddLimbs(a, b, carry) ==
    IF a = <<>> /\ b = <<>>
    THEN IF carry = 0 THEN <<>> ELSE <<carry>>
    ELSE LET v == (IF a = <<>> THEN 0 ELSE Head(a))
                  + (IF b = <<>> THEN 0 ELSE Head(b)) + carry
         IN  <<v % LimbBase>>
             \o AddLimbs(IF a = <<>> THEN a ELSE Tail(a),
                         IF b = <<>> THEN b ELSE Tail(b), v \div LimbBase)

\* x + y for floats x, y >= 0
plus(x, y) ==
    LET e == Max(x.e, y.e)
        sum == AddLimbs(Limbs(AlignTo(x, e)), Limbs(AlignTo(y, e)), 0)
        bits == StripZeros(BitsOfLimbsMSB(ReverseSeq(sum)))
    IN  IF bits = <<>> THEN [m |-> <<>>, e |-> 0]
        ELSE RoundTo53(bits, e, FALSE)

\* x / 2 for a float x >= 0
half(x) == IF x.m = <<>> THEN x ELSE [m |-> x.m, e |-> x.e + 1]

\* x > y for floats x, y >= 0
greater(x, y) ==
    LET e == Max(x.e, y.e)
        a0 == AlignTo(x, e)
        b0 == AlignTo(y, e)
        n == Max(Len(a0), Len(b0))
        a == Zeros(n - Len(a0)) \o a0
        b == Zeros(n - Len(b0)) \o b0
    IN  \E i \in 1..n : a[i] > b[i] /\ \A j \in 1..(i - 1) : a[j] = b[j]

\* x >= k for a float x >= 0 and an int k >= 0
at_least(x, k) ==
    IF Len(x.m) <= x.e THEN k = 0
    ELSE NatOfBits(SubSeq(x.m, 1, Len(x.m) - x.e)) >= k

\* the float a rounded rate stands for: the double nearest to rate / 10^4
float_of_rate(rate) == true_div(rate, 10000)

\* lines 811-812: (len(part) / len(videos) * 100) if videos else 0
percentage(part, videos) ==
    IF videos = <<>> THEN [m |-> <<>>, e |-> 0]
    ELSE times(true_div(Len(part), Len(videos)), 100)

\* the mutant of _analyze_channel_type: thresholds exclusive
analyze_channel_type_above(shorts_percentage, long_percentage) ==
    IF at_least(shorts_percentage, 71) THEN "shorts"
    ELSE IF at_least(long_percentage, 71) THEN "long"
    ELSE "mixed"

\* _analyze_channel_type: the averages it computes are not used
analyze_channel_type(shorts_percentage, long_percentage) ==
    IF at_least(shorts_percentage, 70) THEN "shorts"
    ELSE IF at_least(long_percentage, 70) THEN "long"
    ELSE "mixed"

\* (er_6 + er_15) / 2 of two rounded rates
avg_er(er_6, er_15) == half(plus(float_of_rate(er_6), float_of_rate(er_15)))

\* _generate_final_metrics, channel_type
final_channel_type(primary_format, shorts_er_6, shorts_er_15, long_er_6, long_er_15) ==
    IF primary_format = "shorts" THEN "short"
    ELSE IF primary_format = "long" THEN "long"
    ELSE IF greater(avg_er(shorts_er_6, shorts_er_15),
                    avg_er(long_er_6, long_er_15))
         THEN "short" ELSE "long"

\* get_channel_recent_videos, lines 366-386 and the channel_type of the
\* final metrics, for the merged detailed_videos
channel_format(detailed_videos, subscriber_count) ==
    LET parts == categorize_videos_by_type(detailed_videos)
        shorts_er_6 == calculate_engagement_rate(parts.shorts,
                                                 subscriber_count, 6)
        shorts_er_15 == calculate_engagement_rate(parts.shorts,
                                                  subscriber_count, 15)
        long_er_6 == calculate_engagement_rate(parts.long,
                                               subscriber_count, 6)
        long_er_15 == calculate_engagement_rate(parts.long,
                                                subscriber_count, 15)
        primary_format ==
            analyze_channel_type(percentage(parts.shorts, detailed_videos),
                                 percentage(parts.long, detailed_videos))
    IN  [primary_format |-> primary_format,
         channel_type |-> final_channel_type(primary_format, shorts_er_6,
                             shorts_er_15, long_er_6, long_er_15)]

\* a merged video of one type; a video no stub matched has no video_type
TypedVideo(ty, likes) ==
    IF ty = "none" THEN [like_count |-> likes, comment_count |-> 1]
    ELSE [like_count |-> likes, comment_count |-> 1, video_type |-> ty]

\* s shorts, l long and u videos of no usable type, newest first
MergedVideos(s, l, u, shorts_likes, long_likes) ==
    [i \in 1..s |-> TypedVideo("shorts", shorts_likes)]
    \o [i \in 1..l |-> TypedVideo("long", long_likes)]
    \o [i \in 1..u |-> TypedVideo(IF i = 1 THEN "none" ELSE "unknown", 0)]

TypeSubscriberCounts == {0, 1000}
LikeCounts == {1, 2, 9}

InitType ==
    /\ cache = SimpleCache_init.cache
    /\ stats = SimpleCache_init.stats
    /\ now = 0
    /\ ngets = 0
    /\ lastSet = <<>>
    /\ nops = 0
    /\ NetUnused
    /\ ConcUnused
    /\ \E s \in 0..MaxShorts, l \in 0..MaxLong, u \in 0..MaxUnknown,
          sl \in LikeCounts, ll \in LikeCounts,
          subs \in TypeSubscriberCounts :
        last = [op |-> "input", videos |-> MergedVideos(s, l, u, sl, ll),
                subscriber_count |-> subs]

AnalyzeChannelType ==
    /\ last.op = "input"
    /\ last' = [op |-> "_analyze_channel_type",
                videos |-> last.videos,
                subscriber_count |-> last.subscriber_count,
                out |-> channel_format(last.videos, last.subscriber_count)]
    /\ UNCHANGED <<cache, stats, now, ngets, lastSet, nops, netVars, concVars>>

NextType == AnalyzeChannelType

SpecType == InitType /\ [][NextType]_vars

\* the number of videos of one type
CountOfType(videos, ty) ==
    Cardinality({i \in 1..Len(videos) :
        "video_type" \in DOMAIN videos[i] /\ videos[i].video_type = ty})

\* the mean of the 6- and 15-video rates of the videos of one type
MeanRateOfType(videos, subscriber_count, ty) ==
    LET part == SelectSeq(videos, LAMBDA v :
                    "video_type" \in DOMAIN v /\ v.video_type = ty)
    IN  avg_er(calculate_engagement_rate(part, subscriber_count, 6),
               calculate_engagement_rate(part, subscriber_count, 15))

IdAfter(url, pattern, delimiter) ==
    BeforeFirst(AfterLast(url, pattern), delimiter)

(***************************************************************************)
(* C22: a stub's video_type and video_id come from the same pattern of the *)
(* entry's link: 'long' with the id that follows '/watch?v=', 'shorts'     *)
(* with the id that follows '/shorts/', and 'unknown' with the empty id    *)
(* for any other URL or a missing link; so a stub with a non-empty id is   *)
(* not of type 'unknown'.                                                  *)
(***************************************************************************)
C22_UrlClassification ==
    (last.op = "_parse_rss_feed" /\ last.call.raised = "none"
     /\ last.xml_content.wellformed) =>
        \A i \in 1..Len(last.xml_content.entries) :
            LET link == last.xml_content.entries[i].link
                url == IF link = None THEN <<>> ELSE link[1]
                stub == last.call.value[1][i]
            IN  /\ stub.video_type \in {"long", "shorts", "unknown"}
                /\ stub.video_type = "long" =>
                      /\ Contains(url, "/watch?v=")
                      /\ stub.video_id = IdAfter(url, "/watch?v=", "&")
                /\ stub.video_type = "shorts" =>
                      /\ Contains(url, "/shorts/")
                      /\ stub.video_id = IdAfter(url, "/shorts/", "?")
                /\ stub.video_type = "unknown" =>
                      /\ ~Contains(url, "/watch?v=")
                      /\ ~Contains(url, "/shorts/")
                      /\ stub.video_id = <<>>
                /\ stub.video_id # <<>> => stub.video_type # "unknown"

(***************************************************************************)
(* Specification SpecLang: _get_full_language_name on one code and one     *)
(* code-to-name table.  A code is a sequence of characters.                *)
(***************************************************************************)
LowerOf(ch) ==
    CASE ch = "E" -> "e" [] ch = "S" -> "s" [] ch = "X" -> "x"
      [] ch = "Z" -> "z" [] OTHER -> ch

UpperOf(ch) ==
    CASE ch = "e" -> "E" [] ch = "s" -> "S" [] ch = "x" -> "X"
      [] ch = "z" -> "Z" [] OTHER -> ch

\* str.lower(), str.upper()
lower(text) == [i \in 1..Len(text) |-> LowerOf(text[i])]
upper(text) == [i \in 1..Len(text) |-> UpperOf(text[i])]

\* the mutant of _get_full_language_name: the lowercased code is looked up
\* before the code as given
get_full_language_name_lower_first(language_mappings, language_code) ==
    LET code == lower(language_code)
        base_code == BeforeFirst(code, "-")
    IN  IF language_code = <<>> THEN <<"Unknown">>
        ELSE IF code \in DOMAIN language_mappings
        THEN language_mappings[code]
        ELSE IF language_code \in DOMAIN language_mappings
        THEN language_mappings[language_code]
        ELSE IF base_code \in DOMAIN language_mappings
        THEN language_mappings[base_code]
        ELSE upper(language_code)

\* _get_full_language_name
get_full_language_name(language_mappings, language_code) ==
    LET code == lower(language_code)
        base_code == BeforeFirst(code, "-")
    IN  IF language_code = <<>> THEN <<"Unknown">>
        ELSE IF language_code \in DOMAIN language_mappings
        THEN language_mappings[language_code]
        ELSE IF code \in DOMAIN language_mappings
        THEN language_mappings[code]
        ELSE IF base_code \in DOMAIN language_mappings
        THEN language_mappings[base_code]
        ELSE upper(language_code)

LanguageCodes ==
    { <<>>, <<"e", "s">>, <<"E", "S">>, <<"e", "s", "-", "4", "1", "9">>,
      <<"E", "s", "-", "4", "1", "9">>, <<"x", "x", "-", "Z", "Z">>,
      <<"-", "e", "s">>, <<"z", "-", "e", "s">> }

TableCodes ==
    { <<"e", "s">>, <<"E", "S">>, <<"e", "s", "-", "4", "1", "9">>,
      <<"z">>, <<"x", "x">> }

\* the name the table gives a code
NameOf(code) == <<"name of">> \o code

\* _load_language_mappings: a table over any set of non-empty codes
LanguageTables ==
    { [code \in codes |-> NameOf(code)] : codes \in SUBSET TableCodes }

InitLang ==
    /\ cache = SimpleCache_init.cache
    /\ stats = SimpleCache_init.stats
    /\ now = 0
    /\ ngets = 0
    /\ lastSet = <<>>
    /\ nops = 0
    /\ NetUnused
    /\ ConcUnused
    /\ \E table \in LanguageTables, code \in LanguageCodes :
        last = [op |-> "input", language_mappings |-> table,
                language_code |-> code]

GetFullLanguageName ==
    /\ last.op = "input"
    /\ last' = [op |-> "_get_full_language_name",
                language_mappings |-> last.language_mappings,
                language_code |-> last.language_code,
                name |-> get_full_language_name(last.language_mappings,
                                                last.language_code)]
    /\ UNCHANGED <<cache, stats, now, ngets, lastSet, nops, netVars, concVars>>

NextLang == GetFullLanguageName

SpecLang == InitLang /\ [][NextLang]_vars

(***************************************************************************)
(* C23: for a non-empty code the name is the table's entry for the code as *)
(* given; failing that, for the lowercased code; failing that, for the     *)
(* lowercased code cut before its first hyphen; failing that, the code as  *)
(* given in upper case.  'es-419' with only 'es' in the table gives the    *)
(* name of 'es'; 'xx-ZZ' with no match gives 'XX-ZZ'.                      *)
(***************************************************************************)
C23_LanguageFallback ==
    (last.op = "_get_full_language_name" /\ last.language_code # <<>>) =>
        LET table == last.language_mappings
            given == last.language_code
            lowered == lower(given)
            hyphens == {i \in 1..Len(lowered) : lowered[i] = "-"}
            base == IF hyphens = {} THEN lowered
                    ELSE SubSeq(lowered, 1,
                            (CHOOSE i \in hyphens :
                                \A j \in hyphens : i <= j) - 1)
            has(c) == c \in DOMAIN table
        IN  /\ has(given) => last.name = table[given]
            /\ (~has(given) /\ has(lowered)) => last.name = table[lowered]
            /\ (~has(given) /\ ~has(lowered) /\ has(base)) =>
                    last.name = table[base]
            /\ (~has(given) /\ ~has(lowered) /\ ~has(base)) =>
                    last.name = upper(given)
            /\ (given = <<"e", "s", "-", "4", "1", "9">>
                /\ DOMAIN table = {<<"e", "s">>}) =>
                    last.name = NameOf(<<"e", "s">>)
            /\ (given = <<"x", "x", "-", "Z", "Z">>
                /\ DOMAIN table \subseteq {<<"e", "s">>, <<"E", "S">>}) =>
                    last.name = <<"X", "X", "-", "Z", "Z">>

\* a mixed-case regional code resolved through its base code, the table
\* holding another case of the code as well
C23_Witness ==
    /\ last.op = "_get_full_language_name"
    /\ last.language_code = <<"E", "s", "-", "4", "1", "9">>
    /\ DOMAIN last.language_mappings = {<<"e", "s">>, <<"E", "S">>}
    /\ last.name = NameOf(<<"e", "s">>)

(***************************************************************************)
(* C24: when the channel is found, the orchestrator asks video details for *)
(* the first min(max_videos, number of usable ids) usable ids of the feed, *)
(* in feed order; get_videos_by_id sends them in consecutive requests of   *)
(* at most max_video_batch_size ids, one request per batch.                *)
(***************************************************************************)
C24_RequestedIds ==
    /\ (last.op = "get_channel_recent_videos" /\ last.out # EmptyResult) =>
          /\ last.video_ids =
                SliceTo(UsableIds(last.rss_videos), last.max_videos)
          /\ Cardinality({i \in 1..Len(last.calls) :
                            last.calls[i] = "videos"})
                \in {0, NumBatches(last.video_ids, MAX_VIDEO_BATCH_SIZE)}
    /\ (last.op = "get_videos_by_id" /\ last.ran) =>
          \E ids \in VideoIdLists :
              /\ last.key = cache_key("get_videos_by_id", <<Pos(ids)>>)
              /\ Len(last.calls) = NumBatches(ids, MAX_VIDEO_BATCH_SIZE)
              /\ Concat([b \in 1..Len(last.calls) |->
                    Batch(ids, (b - 1) * MAX_VIDEO_BATCH_SIZE,
                          MAX_VIDEO_BATCH_SIZE)]) = ids

(***************************************************************************)
(* C25: a failed upstream fetch is never stored.  When a cached operation  *)
(* misses and the upstream request it makes returns None, the cache holds  *)
(* no entry under the call's key afterwards, and the next identical call   *)
(* issues the upstream request again.                                      *)
(***************************************************************************)
C25_FailureNotStored ==
    [][IsCachedStep =>
        /\ last'.upstream_failed => last'.key \notin DOMAIN cache'
        /\ (/\ last.op \in CachedOps
            /\ last.upstream_failed
            /\ last'.key = last.key) => last'.ran]_vars

(***************************************************************************)
(* C26: get_channel_recent_videos leaves the cache entries of              *)
(* get_videos_by_id as they were stored: after a run no stored video       *)
(* carries a video_type or rss_url field, and an entry that was live       *)
(* before the run holds the same value after it.                           *)
(***************************************************************************)
C26_CachedVideosUntouched ==
    [][IsOrchStep =>
        \A k \in DOMAIN cache' :
            k[1] = "get_videos_by_id" =>
                /\ \A i \in 1..Len(cache'[k].data) :
                      DOMAIN cache'[k].data[i]
                          \cap {"video_type", "rss_url"} = {}
                /\ LiveEntry(k) => cache'[k].data = cache[k].data]_vars

(***************************************************************************)
(* Specification SpecHandler: a handler built with cache_enabled true or   *)
(* false, and one caller using its cached operations, get_cache_stats and  *)
(* clear_cache.  self.cache is None exactly when stats is None: a          *)
(* SimpleCache always carries its two counters.                            *)
(***************************************************************************)
MaxHandlerOps == 3
MaxHandlerTime == 2

\* __init__, line 104: self.cache = SimpleCache() if cache_enabled else None
handler_init(cache_enabled) ==
    IF cache_enabled THEN SimpleCache_init
    ELSE [cache |-> None, stats |-> None]

self_cache == IF stats = None THEN None ELSE Some(TheCache)

\* a call that ends in an exception or returns a value
Raised(exc) == [raised |-> exc, value |-> None]
Returned(v) == [raised |-> "none", value |-> Some(v)]

\* the wrapper as a call on a handler whose cache attribute is obj: line 67
\* reads obj.get
wrapper_call(obj, func_name, args, ttl, t, result) ==
    IF obj = None THEN Raised("AttributeError")
    ELSE Returned(wrapper(obj[1], func_name, args, ttl, t, result))

\* get_cache_stats(): self.cache.stats()
get_cache_stats(obj) ==
    IF obj = None THEN Raised("AttributeError")
    ELSE Returned(SimpleCache_stats(obj[1]))

\* clear_cache(): self.cache.clear()
clear_cache(obj) ==
    IF obj = None THEN Raised("AttributeError")
    ELSE Returned(SimpleCache_clear(obj[1]))

InitHandler ==
    \E cache_enabled \in BOOLEAN :
        /\ cache = handler_init(cache_enabled).cache
        /\ stats = handler_init(cache_enabled).stats
        /\ now = 0
        /\ ngets = 0
        /\ lastSet = <<>>
        /\ last = [op |-> "init", cache_enabled |-> cache_enabled]
        /\ nops = 0
        /\ NetUnused
        /\ ConcUnused

HandlerCall(func_name, args, ttl, result) ==
    /\ nops < MaxHandlerOps
    /\ LET r == wrapper_call(self_cache, func_name, args, ttl, now, result) IN
        /\ cache' = IF r.raised = "none" THEN r.value[1].c.cache ELSE cache
        /\ stats' = IF r.raised = "none" THEN r.value[1].c.stats ELSE stats
        /\ last' = [op |-> func_name,
                    raised |-> r.raised,
                    out |-> IF r.raised = "none"
                            THEN Some(r.value[1].out) ELSE None,
                    ran |-> r.raised = "none" /\ r.value[1].ran,
                    fetched |-> result]
    /\ nops' = nops + 1
    /\ UNCHANGED <<now, ngets, lastSet, netVars, concVars>>

HandlerGetCacheStats ==
    /\ nops < MaxHandlerOps
    /\ LET r == get_cache_stats(self_cache) IN
        last' = [op |-> "get_cache_stats", raised |-> r.raised,
                 out |-> r.value]
    /\ nops' = nops + 1
    /\ UNCHANGED <<cache, stats, now, ngets, lastSet, netVars, concVars>>

HandlerClearCache ==
    /\ nops < MaxHandlerOps
    /\ LET r == clear_cache(self_cache) IN
        /\ cache' = IF r.raised = "none" THEN r.value[1].cache ELSE cache
        /\ stats' = IF r.raised = "none" THEN r.value[1].stats ELSE stats
        /\ last' = [op |-> "clear_cache", raised |-> r.raised, out |-> None]
    /\ nops' = nops + 1
    /\ UNCHANGED <<now, ngets, lastSet, netVars, concVars>>

TickHandler ==
    /\ now < MaxHandlerTime
    /\ now' = now + 1
    /\ UNCHANGED <<cache, stats, ngets, lastSet, last, nops, netVars, concVars>>

NextHandler ==
    \/ \E h \in Handles, a \in ChannelAnswers :
            HandlerCall("get_channel_by_handle", <<Pos(h)>>,
                        CACHE_TTL_CHANNEL, channel_by_handle_body(a))
    \/ \E ids \in ChannelIdLists :
        \E m \in ModeLists(ids, MAX_CHANNEL_BATCH_SIZE) :
            HandlerCall("get_channels_by_id", <<Pos(ids)>>, CACHE_TTL_CHANNEL,
                channels_by_id_body(ids,
                    [b \in 1..NumBatches(ids, MAX_CHANNEL_BATCH_SIZE) |->
                        IF m[b] = "fail" THEN None
                        ELSE Some([items |-> <<RawChannel(100)>>])]))
    \/ \E ids \in VideoIdLists :
        \E m \in ModeLists(ids, MAX_VIDEO_BATCH_SIZE) :
            HandlerCall("get_videos_by_id", <<Pos(ids)>>, CACHE_TTL_VIDEO,
                        videos_by_id_body(ids, video_responses(ids, m)))
    \/ \E id \in ChannelIds, x \in XmlAnswers :
            HandlerCall("get_channel_videos_rss", <<Pos(id)>>, CACHE_TTL_RSS,
                        channel_videos_rss_body(x))
    \/ HandlerGetCacheStats
    \/ HandlerClearCache
    \/ TickHandler

SpecHandler == InitHandler /\ [][NextHandler]_vars

(***************************************************************************)
(* C27: a handler constructed with cache_enabled = False serves every      *)
(* operation.  Each cached operation returns, having called upstream,      *)
(* with its data, from_cache = false and cache_status = 'miss';            *)
(* get_cache_stats and clear_cache return without raising.                 *)
(***************************************************************************)
C27_CacheDisabled ==
    (self_cache = None /\ last.op # "init") =>
        /\ last.raised = "none"
        /\ last.op \in CachedOps =>
              /\ last.ran
              /\ last.out = Some(Result(last.fetched, FALSE, "miss"))

(***************************************************************************)
(* C28: SimpleCache.get never raises, whatever the interleaving of the     *)
(* concurrent get calls of two workers on the same key: a worker that      *)
(* finds the entry expired goes on as a miss even when the other worker    *)
(* has removed the entry in the meantime.                                  *)
(***************************************************************************)
C28_GetNeverRaises ==
    /\ nraised = 0
    /\ \A t \in Threads : ~thread[t].raised

(***************************************************************************)
(* C29: SimpleCache.clear removes every entry and leaves the counters as   *)
(* they are, and set leaves the counters as they are; a get of a key that  *)
(* was not set since the last clear returns absent and counts as a miss;   *)
(* after any series of get, set and clear calls hits + misses is the       *)
(* number of get calls made.                                               *)
(***************************************************************************)
IsClearStep == last'.op = "clear" /\ now' = now /\ ngets' = ngets
IsSetStep == last'.op = "set" /\ now' = now /\ ngets' = ngets

C29_ClearAndCounters ==
    /\ [](stats.hits + stats.misses = ngets)
    /\ [][/\ IsClearStep => (DOMAIN cache' = {} /\ stats' = stats)
          /\ IsSetStep => stats' = stats
          /\ (IsGetStep /\ lastSet[last'.key] = None) =>
                /\ last'.ret = None
                /\ stats'.misses = stats.misses + 1
                /\ stats'.hits = stats.hits]_vars

\* a get after a clear finds nothing, although an earlier get of the cache
\* was a hit: every entry set before the clear has gone
C29_Witness ==
    /\ last.op = "get"
    /\ last.ret = None
    /\ \A k \in Keys : lastSet[k] = None
    /\ stats.hits >= 1
    /\ stats.misses >= 1
    /\ stats.hits + stats.misses = ngets

(***************************************************************************)
(* Specification SpecGateway: the two POST routes of src/api_server.py     *)
(* that loop over a list of the request body, POST /api/channels/rss and   *)
(* POST /api/batch, on the gateway's handler.  A JSON value is             *)
(* [type, value]; the body is None for JSON null and Some(object)          *)
(* otherwise.                                                              *)
(***************************************************************************)
MaxGatewayOps == 2
MaxGatewayTime == 1
MaxListLen == 2

MAX_RSS_CHANNELS == 10
MAX_BATCH_REQUESTS == 20

JsonList(seq) == [type |-> "list", value |-> seq]
\* a string, as its characters
JsonStr(text) == [type |-> "str", value |-> text]

\* standardize_response; cache_details is left out when it is empty
standardize_response(data, from_cache, cache_status, cache_details, count) ==
    [status |-> 200, success |-> TRUE, data |-> data,
     meta |-> [from_cache |-> from_cache, cache_status |-> cache_status,
               count |-> count,
               cache_details |-> IF Falsy(cache_details) THEN None
                                 ELSE Some(cache_details)]]

bad_request(error) == [status |-> 400, success |-> FALSE, error |-> error]

\* any(x['from_cache'] for x in d.values())
any_from_cache(d) == \E k \in DOMAIN d : d[k].from_cache

\* 'mixed' if len(set(x['cache_status'] for x in d.values())) > 1
\*         else list(d.values())[0]['cache_status']
\* with at most one status among the values, the first value has that status
aggregate_cache_status(d) ==
    LET statuses == {d[k].cache_status : k \in DOMAIN d} IN
    IF Cardinality(statuses) > 1 THEN Returned("mixed")
    ELSE IF DOMAIN d = {} THEN Raised("IndexError")
    ELSE Returned(CHOOSE s \in statuses : TRUE)

\* lines 486-491: one turn of the loop
rss_file(prev, channel_id, result) ==
    [c |-> result.c,
     results |-> With(prev.results, channel_id, result.out.data[1]),
     cache_statuses |-> With(prev.cache_statuses, channel_id,
                             detail_of(result.out))]

rss_step(prev, t, channel_id, up) ==
    rss_file(prev, channel_id,
             wrapper(prev.c, "get_channel_videos_rss", <<Pos(channel_id)>>,
                     CACHE_TTL_RSS, t, channel_videos_rss_body(up[channel_id])))

\* the loop of lines 485-491 over the first n ids
RECURSIVE rss_loop(_, _, _, _, _)
rss_loop(c, t, channel_ids, up, n) ==
    IF n = 0 THEN [c |-> c, results |-> <<>>, cache_statuses |-> <<>>]
    ELSE rss_step(rss_loop(c, t, channel_ids, up, n - 1), t, channel_ids[n],
                  up)

\* lines 493-498, and @handle_errors around the route
rss_answer(loop, status) ==
    [c |-> loop.c,
     response |->
        IF status.raised # "none" THEN handle_errors(status.raised)
        ELSE standardize_response(loop.results,
                 any_from_cache(loop.cache_statuses), status.value[1],
                 loop.cache_statuses, None)]

rss_run(loop) == rss_answer(loop, aggregate_cache_status(loop.cache_statuses))

\* POST /api/channels/rss on the cache c at time t
get_multiple_channels_rss(c, t, data, up) ==
    IF data = None \/ Falsy(data[1]) \/ "channel_ids" \notin DOMAIN data[1]
    THEN [c |-> c, response |-> bad_request("Missing required parameter")]
    ELSE IF data[1].channel_ids.type # "list"
    THEN [c |-> c, response |-> bad_request("Invalid parameter type")]
    ELSE IF Len(data[1].channel_ids.value) > MAX_RSS_CHANNELS
    THEN [c |-> c, response |-> bad_request("Request limit exceeded")]
    ELSE rss_run(rss_loop(c, t, data[1].channel_ids.value, up,
                          Len(data[1].channel_ids.value)))

\* the answers upstream gives to the requests of one batch item
channel_responses(channel_ids, mode) ==
    [b \in 1..NumBatches(channel_ids, MAX_CHANNEL_BATCH_SIZE) |->
        IF mode = "fail" THEN None ELSE Some([items |-> <<RawChannel(100)>>])]

error_info == [from_cache |-> FALSE, cache_status |-> "error"]

\* a call with **{}: the wrapper looks the key up, then func(self) lacks its
\* required argument (TypeError), which line 585 catches
item_raises(c, t, func_name) ==
    [c |-> SimpleCache_get(c, cache_key(func_name, <<>>), t).c,
     data |-> None,
     info |-> [from_cache |-> FALSE, cache_status |-> "error",
               error |-> "TypeError"]]

\* what one config leaves behind, given the operation's result and the
\* data the route files for it
served(result, formatted_data) ==
    [c |-> result.c, data |-> formatted_data, info |-> detail_of(result.out)]

\* lines 556-559
channel_item(result) ==
    served(result,
           IF result.out.data # None /\ ~Falsy(result.out.data[1])
           THEN Some(format_channel_response(result.out.data[1], None))
           ELSE None)

\* lines 560-567
channels_item(result) ==
    served(result,
           Some([i \in 1..Len(result.out.data[1]) |->
                    format_channel_response(result.out.data[1][i], None)]))

\* lines 568-573
list_item(result) == served(result, result.out.data)

\* lines 574-576
recent_videos_item(result) ==
    [c |-> result.c, data |-> Some(result.out.data),
     info |-> detail_of(result.out)]

\* lines 548-591: one config of the batch.  params is "ok" (the operation's
\* arguments by name) or "missing" (an empty mapping)
batch_item(c, t, config, up) ==
    IF config.type = Some("channel_by_handle") THEN
        IF config.params = "missing"
        THEN item_raises(c, t, "get_channel_by_handle")
        ELSE channel_item(wrapper(c, "get_channel_by_handle",
                              <<Kw("handle", "@a")>>, CACHE_TTL_CHANNEL, t,
                              channel_by_handle_body(up.channel)))
    ELSE IF config.type = Some("channels_by_id") THEN
        IF config.params = "missing"
        THEN item_raises(c, t, "get_channels_by_id")
        ELSE channels_item(wrapper(c, "get_channels_by_id",
                               <<Kw("channel_ids", <<"UC1", "UC2", "UC3">>)>>,
                               CACHE_TTL_CHANNEL, t,
                               channels_by_id_body(<<"UC1", "UC2", "UC3">>,
                                   channel_responses(<<"UC1", "UC2", "UC3">>,
                                                     up.channels))))
    ELSE IF config.type = Some("videos_by_id") THEN
        IF config.params = "missing"
        THEN item_raises(c, t, "get_videos_by_id")
        ELSE list_item(wrapper(c, "get_videos_by_id",
                           <<Kw("video_ids", << <<"v1">> >>)>>,
                           CACHE_TTL_VIDEO, t,
                           videos_by_id_body(<< <<"v1">> >>,
                               video_responses(<< <<"v1">> >>, up.videos))))
    ELSE IF config.type = Some("channel_rss") THEN
        IF config.params = "missing"
        THEN item_raises(c, t, "get_channel_videos_rss")
        ELSE list_item(wrapper(c, "get_channel_videos_rss",
                           <<Kw("channel_id", "UC1")>>, CACHE_TTL_RSS, t,
                           channel_videos_rss_body(up.rss)))
    ELSE IF config.type = Some("channel_recent_videos") THEN
        IF config.params = "missing"
        THEN [c |-> c, data |-> None,
              info |-> [from_cache |-> FALSE, cache_status |-> "error",
                        error |-> "TypeError"]]
        ELSE recent_videos_item(
                 get_channel_recent_videos(c, t, "@a", 15, up))
    ELSE [c |-> c, data |-> None, info |-> error_info]

\* lines 552 and 578-584: file the item under f"{request_type}_{i}"
file_item(prev, slot, item) ==
    [c |-> item.c,
     results |-> With(prev.results, slot, item.data),
     cache_info |-> With(prev.cache_info, slot, item.info),
     raised |-> "none"]

\* one turn of the loop, number i from 0; a config that is not a mapping
\* raises at config.get, outside the try
batch_step(prev, t, config, up, i) ==
    IF prev.raised # "none" THEN prev
    ELSE IF config.kind # "object"
    THEN [prev EXCEPT !.raised = "AttributeError"]
    ELSE file_item(prev, slot_key(config.type, i),
                   batch_item(prev.c, t, config, up))

\* the loop of lines 548-591 over the first n configs
RECURSIVE batch_loop(_, _, _, _, _)
batch_loop(c, t, configs, up, n) ==
    IF n = 0
    THEN [c |-> c, results |-> <<>>, cache_info |-> <<>>, raised |-> "none"]
    ELSE batch_step(batch_loop(c, t, configs, up, n - 1), t, configs[n], up,
                    n - 1)

\* lines 593-599, and @handle_errors around the route
batch_answer(loop, status) ==
    [c |-> loop.c,
     response |->
        IF loop.raised # "none" THEN handle_errors(loop.raised)
        ELSE IF status.raised # "none" THEN handle_errors(status.raised)
        ELSE standardize_response(loop.results,
                 any_from_cache(loop.cache_info), status.value[1],
                 loop.cache_info, Some(Cardinality(DOMAIN loop.results)))]

batch_run(loop) == batch_answer(loop, aggregate_cache_status(loop.cache_info))

\* POST /api/batch on the cache c at time t
batch_process(c, t, data, up) ==
    IF data = None \/ Falsy(data[1]) \/ "requests" \notin DOMAIN data[1]
    THEN [c |-> c, response |-> bad_request("Missing required parameter")]
    ELSE IF data[1].requests.type # "list"
    THEN [c |-> c, response |-> bad_request("Invalid parameter type")]
    ELSE IF Len(data[1].requests.value) > MAX_BATCH_REQUESTS
    THEN [c |-> c, response |-> bad_request("Request limit exceeded")]
    ELSE batch_run(batch_loop(c, t, data[1].requests.value, up,
                              Len(data[1].requests.value)))

\* request bodies
SeqsUpTo(S, n) == UNION {[1..k -> S] : k \in 0..n}

GatewayChannelIds == {"UC1", "UC2"}

RssBodies ==
    {None, Some(<<>>), Some([other |-> JsonStr(<<>>)]),
     Some([channel_ids |-> JsonStr(<<>>)]),
     Some([channel_ids |->
              JsonList([i \in 1..(MAX_RSS_CHANNELS + 1) |-> "UC1"])])}
    \cup {Some([channel_ids |-> JsonList(ids)]) :
             ids \in SeqsUpTo(GatewayChannelIds, MaxListLen)}

BatchItem(type, params) == [kind |-> "object", type |-> type, params |-> params]

BatchItems ==
    {BatchItem(Some(ty), "ok") : ty \in RequestTypes}
    \cup {BatchItem(Some("channel_rss"), "missing"),
          BatchItem(Some("bogus"), "ok"),
          [kind |-> "string", type |-> None, params |-> "ok"]}

BatchBodies ==
    {None, Some(<<>>), Some([other |-> JsonStr(<<>>)]),
     Some([requests |-> JsonStr(<<>>)]),
     Some([requests |->
              JsonList([i \in 1..(MAX_BATCH_REQUESTS + 1) |->
                           BatchItem(Some("bogus"), "ok")])])}
    \cup {Some([requests |-> JsonList(items)]) :
             items \in SeqsUpTo(BatchItems, MaxListLen)}

GatewayFeeds ==
    {None,
     Some([wellformed |-> TRUE, entries |-> <<Entry(UrlWatch)>>])}

\* one mode for the videos and the channels requests of a batch
BatchUpstream ==
    {[channel |-> a, rss |-> x, videos |-> [b \in 1..1 |-> m], channels |-> m] :
        a \in ChannelAnswers, x \in GatewayFeeds, m \in AnswerModes}

InitGateway ==
    /\ cache = SimpleCache_init.cache
    /\ stats = SimpleCache_init.stats
    /\ now = 0
    /\ ngets = 0
    /\ lastSet = <<>>
    /\ last = [op |-> "init"]
    /\ nops = 0
    /\ NetUnused
    /\ ConcUnused

\* what one request leaves behind, given the route's outcome r
Answered(route, data, r) ==
    /\ nops < MaxGatewayOps
    /\ cache' = r.c.cache
    /\ stats' = r.c.stats
    /\ last' = [op |-> route, body |-> data, response |-> r.response]
    /\ nops' = nops + 1
    /\ UNCHANGED <<now, ngets, lastSet, netVars, concVars>>

PostChannelsRss(data, up) ==
    Answered("get_multiple_channels_rss", data,
             get_multiple_channels_rss(TheCache, now, data, up))

PostBatch(data, up) ==
    Answered("batch_process", data, batch_process(TheCache, now, data, up))

TickGateway ==
    /\ now < MaxGatewayTime
    /\ now' = now + 1
    /\ UNCHANGED <<cache, stats, ngets, lastSet, last, nops, netVars, concVars>>

NextGateway ==
    \/ \E data \in RssBodies, up \in [GatewayChannelIds -> GatewayFeeds] :
            PostChannelsRss(data, up)
    \/ \E data \in BatchBodies, up \in BatchUpstream : PostBatch(data, up)
    \/ TickGateway

SpecGateway == InitGateway /\ [][NextGateway]_vars

(***************************************************************************)
(* C30: the mixed-batch route and the multi-channel RSS route answer a     *)
(* body whose list ('requests' / 'channel_ids') is empty with a success    *)
(* envelope carrying empty data, with count 0 for the batch, not with an   *)
(* error.                                                                  *)
(***************************************************************************)
C30_EmptyList ==
    /\ (/\ last.op = "batch_process"
        /\ last.body = Some([requests |-> JsonList(<<>>)])) =>
            /\ last.response.status = 200
            /\ last.response.success
            /\ last.response.data = <<>>
            /\ last.response.meta.count = Some(0)
    /\ (/\ last.op = "get_multiple_channels_rss"
        /\ last.body = Some([channel_ids |-> JsonList(<<>>)])) =>
            /\ last.response.status = 200
            /\ last.response.success
            /\ last.response.data = <<>>
====
